---- MODULE Spec2Model ----
(***************************************************************************)
(* PeekXtract: remote ZIP reader (src/src/peekxtract.py,                   *)
(* EnhancedRemoteZipReader; src/src/main.py, FixedRemoteZipReader).        *)
(*                                                                         *)
(* Byte quantities are counted in bytes.  The content of the remote        *)
(* archive is left symbolic: a byte string is a sequence of segments       *)
(* [lo, hi], standing for the archive bytes at offsets lo..hi, so that     *)
(* concatenation, length and equality of byte strings are computed         *)
(* without enumerating the bytes.                                          *)
(***************************************************************************)
EXTENDS Integers, Sequences, FiniteSets, TLC

(***************************************************************************)
(* Program constants                                                       *)
(***************************************************************************)
MiB == 1024 * 1024
GiB == 1024 * 1024 * 1024

\* thresholds and chunk sizes of download_file
LARGE_THRESHOLD == GiB
MEDIUM_THRESHOLD == 100 * MiB
CHUNK_LARGE == 16 * MiB
CHUNK_MEDIUM == 8 * MiB
CHUNK_SMALL == 4 * MiB
WORKERS_LARGE == 2
WORKERS_MEDIUM == 3
DEFAULT_MAX_WORKERS == 4

\* _read_bytes(start, length, max_retries = 3)
MAX_RETRIES == 3

LOCAL_HEADER_LEN == 30
LOCAL_HEADER_SIGNATURE == 67324752     \* 0x04034b50

\* The 32-bit sentinel 0xFFFFFFFF of ZIP64.  TLC integers are 32-bit signed,
\* so the sentinel is represented by the largest of them; every other size
\* and offset of the model is smaller, as every non-sentinel 32-bit field is
\* smaller than 0xFFFFFFFF.
SENTINEL32 == (2 ^ 30 - 1) + 2 ^ 30
ZIP64_EXTRA_ID == 1

\* HTTP statuses _read_bytes accepts
PARTIAL_CONTENT == 206
OK == 200

(***************************************************************************)
(* Bounds of the model                                                     *)
(***************************************************************************)
\* largest number of whole small chunks in a planned payload
MaxPlanChunks == 3
\* largest payload start offset of a planned extraction
MaxPlanOffset == 2
\* largest number of chunks of an extraction run by the worker pool
MaxChunks == 2
\* largest file-name length of a local header
MaxNameLen == 1
\* largest number of records of a central directory that is walked
MaxRecords == 2
\* largest number of times the central directory is fetched through one handle
MaxParses == 2

(***************************************************************************)
(* Byte strings as sequences of archive segments                           *)
(***************************************************************************)
\* bytes lo..hi of the archive; the empty string when hi < lo
Slice(lo, hi) == IF hi < lo THEN << >> ELSE << [lo |-> lo, hi |-> hi] >>

RECURSIVE ByteLen(_)
ByteLen(b) == IF b = << >> THEN 0
              ELSE (Head(b).hi - Head(b).lo + 1) + ByteLen(Tail(b))

\* Normalize merges adjacent segments that are contiguous in the archive, so
\* that two byte strings are equal exactly when their normal forms are.
\* MergeLast appends segment s to the normal form acc, merging it with the last segment
\* of acc when the two are contiguous in the archive
MergeLast(acc, s) ==
    IF acc # << >> /\ acc[Len(acc)].hi + 1 = s.lo
    THEN [acc EXCEPT ![Len(acc)].hi = s.hi]
    ELSE Append(acc, s)

RECURSIVE NormalizeFrom(_, _)
NormalizeFrom(acc, b) ==
    IF b = << >> THEN acc
    ELSE NormalizeFrom(MergeLast(acc, Head(b)), Tail(b))

Normalize(b) == NormalizeFrom(<< >>, b)

\* b''.join(chunks) for a sequence of byte strings
RECURSIVE Join(_)
Join(chunks) == IF chunks = << >> THEN << >>
                ELSE Head(chunks) \o Join(Tail(chunks))

(***************************************************************************)
(* Chunk geometry of download_file                                         *)
(***************************************************************************)
ChunkSizeUpperTier(expected_size) ==
    IF expected_size >= LARGE_THRESHOLD THEN CHUNK_LARGE
    ELSE IF expected_size >= MEDIUM_THRESHOLD THEN CHUNK_MEDIUM
    ELSE CHUNK_SMALL
\* the if / elif / else on expected_size
ChunkSize(expected_size) ==
    IF expected_size > LARGE_THRESHOLD THEN CHUNK_LARGE
    ELSE IF expected_size > MEDIUM_THRESHOLD THEN CHUNK_MEDIUM
    ELSE CHUNK_SMALL

Workers(expected_size, max_workers) ==
    IF expected_size > LARGE_THRESHOLD THEN WORKERS_LARGE
    ELSE IF expected_size > MEDIUM_THRESHOLD THEN WORKERS_MEDIUM
    ELSE max_workers

TotalChunksFloor(expected_size, chunk_size) == expected_size \div chunk_size
\* total_chunks = (expected_size + chunk_size - 1) // chunk_size
TotalChunks(expected_size, chunk_size) ==
    (expected_size + chunk_size - 1) \div chunk_size

Min(a, b) == IF a < b THEN a ELSE b

\* fetch_chunk: start = data_offset + idx * chunk_size
ChunkStart(data_offset, chunk_size, idx) == data_offset + idx * chunk_size

ChunkEndUnclamped(data_offset, expected_size, chunk_size, idx) ==
    ChunkStart(data_offset, chunk_size, idx) + chunk_size - 1

\* fetch_chunk: end = min(start + chunk_size - 1, data_offset + expected_size - 1)
ChunkEnd(data_offset, expected_size, chunk_size, idx) ==
    Min(ChunkStart(data_offset, chunk_size, idx) + chunk_size - 1,
        data_offset + expected_size - 1)

\* the length fetch_chunk passes to _read_bytes: end - start + 1
ChunkLength(data_offset, expected_size, chunk_size, idx) ==
    ChunkEnd(data_offset, expected_size, chunk_size, idx)
        - ChunkStart(data_offset, chunk_size, idx) + 1

\* _read_bytes: the inclusive range of the Range header
RangeOf(start, length) == [lo |-> start, hi |-> start + length - 1]

(***************************************************************************)
(* Optional values                                                         *)
(***************************************************************************)
None == << >>
Some(x) == << x >>

(***************************************************************************)
(* _read_bytes: one ranged GET per attempt, retried with backoff           *)
(***************************************************************************)
\* state of one call of _read_bytes: attempts made so far (the loop variable
\* attempt of the next iteration), the sleeps taken, whether the last attempt
\* was answered 206 or 200, and how the call stands
NewRead == [attempts |-> 0, waits |-> << >>, answered |-> FALSE,
            outcome |-> "retry", content |-> << >>]

\* the server answered the attempt with 206 or 200
Answered(resp) == ~resp.raised /\ resp.status \in {PARTIAL_CONTENT, OK}

\* what the server may do with Range: bytes=start-(start+length-1): answer
\* 206 or 200 with exactly those bytes, answer 200 with the whole archive
\* (Range ignored), answer an error status, or not answer (timeout)
Responses(start, length, archive_len) ==
    { [raised |-> FALSE, status |-> PARTIAL_CONTENT, body |-> Slice(start, start + length - 1)],
      [raised |-> FALSE, status |-> OK, body |-> Slice(start, start + length - 1)],
      [raised |-> FALSE, status |-> OK, body |-> Slice(0, archive_len - 1)],
      [raised |-> FALSE, status |-> 503, body |-> << >>],
      [raised |-> TRUE, status |-> 0, body |-> << >>] }

AcceptedPartialOnly(resp) == ~resp.raised /\ resp.status = PARTIAL_CONTENT
\* if response.status_code not in [206, 200]: raise
Accepted(resp) == ~resp.raised /\ resp.status \in {PARTIAL_CONTENT, OK}

WaitTimeDoubled(attempt) == 2 ^ (attempt + 1)
\* wait_time = 2 ** attempt
WaitTime(attempt) == 2 ^ attempt

\* one iteration of the loop "for attempt in range(max_retries)"
ReadAttempt(rd, resp) ==
    IF Accepted(resp)
    THEN [attempts |-> rd.attempts + 1, waits |-> rd.waits, answered |-> Answered(resp),
          outcome |-> "returned", content |-> resp.body]
    ELSE IF rd.attempts < MAX_RETRIES - 1
    THEN [attempts |-> rd.attempts + 1,
          waits |-> Append(rd.waits, WaitTime(rd.attempts)),
          answered |-> Answered(resp), outcome |-> "retry", content |-> << >>]
    ELSE [attempts |-> rd.attempts + 1, waits |-> rd.waits, answered |-> Answered(resp),
          outcome |-> "raised", content |-> << >>]

(***************************************************************************)
(* _get_local_file_header_info                                             *)
(***************************************************************************)
\* A local header as the two reads deliver it: the fixed fields and the
\* extra field as its sequence of blocks (header_id, data_size, and the
\* 8-byte values the data holds).
RECURSIVE ExtraLen(_)
\* the data bytes of a block that are there: the declared data_size, or
\* fewer when the extra field ends inside the 8-byte values of the block
PresentLen(block) ==
    IF block.header_id = ZIP64_EXTRA_ID /\ 8 * Len(block.fields) < block.data_size
    THEN 8 * Len(block.fields)
    ELSE block.data_size

ExtraLen(extra) == IF extra = << >> THEN 0
                   ELSE 4 + PresentLen(Head(extra)) + ExtraLen(Tail(extra))

\* the while loop over extra_data: index of the first block with ID 0x0001,
\* 0 when the scan runs off the end
RECURSIVE FirstZip64From(_, _)
FirstZip64From(extra, k) ==
    IF k > Len(extra) THEN 0
    ELSE IF extra[k].header_id = ZIP64_EXTRA_ID THEN k
    ELSE FirstZip64From(extra, k + 1)

\* compressed_size as returned: the header's 32-bit value, replaced from the
\* ZIP64 extra when a size is the sentinel
LocalCompressedSize(h) ==
    IF ExtraLen(h.extra) > 0
         /\ (h.compressed_size = SENTINEL32 \/ h.uncompressed_size = SENTINEL32)
    THEN LET k == FirstZip64From(h.extra, 1)
         IN IF k = 0 THEN h.compressed_size
            ELSE LET data_size == h.extra[k].data_size
                     field_offset ==
                         IF h.uncompressed_size = SENTINEL32 /\ 8 <= data_size
                         THEN 8 ELSE 0
                 IN IF h.compressed_size = SENTINEL32 /\ field_offset + 8 <= data_size
                    THEN h.extra[k].fields[(field_offset \div 8) + 1]
                    ELSE h.compressed_size
    ELSE h.compressed_size

DataOffsetNoExtra(local_header_offset, h) ==
    local_header_offset + LOCAL_HEADER_LEN + h.filename_len
\* data_offset = local_header_offset + 30 + filename_len + extra_len
DataOffset(local_header_offset, h) ==
    local_header_offset + LOCAL_HEADER_LEN + h.filename_len + ExtraLen(h.extra)

FinalSizeCatalog(catalog_size, actual_compressed_size) == catalog_size
\* expected_size after "if actual_compressed_size > expected_size"
FinalSize(catalog_size, actual_compressed_size) ==
    IF actual_compressed_size > catalog_size THEN actual_compressed_size
    ELSE catalog_size

(***************************************************************************)
(* _parse_central_directory, _parse_zip64_extra_field                      *)
(***************************************************************************)
CENTRAL_HEADER_LEN == 46
CENTRAL_HEADER_SIGNATURE == 33639248

\* A central-directory record as the walk reads it: the fixed fields, the
\* name as its sequence of characters, the extra field as its sequence of
\* blocks and the length of the comment.  A catalog is the sequence of the
\* entries of files_info, entry k + 1 under the key k.

Zip64ValuesFixedSlots(block, compressed_size, uncompressed_size, local_header_offset) ==
    LET data_size == block.data_size
        takes_u == uncompressed_size = SENTINEL32 /\ 8 <= data_size
        takes_c == compressed_size = SENTINEL32 /\ 16 <= data_size
        takes_o == local_header_offset = SENTINEL32 /\ 24 <= data_size
    IN [raised |-> FALSE,
        uncompressed_size |-> IF takes_u THEN block.fields[1] ELSE uncompressed_size,
        compressed_size |-> IF takes_c THEN block.fields[2] ELSE compressed_size,
        local_header_offset |-> IF takes_o THEN block.fields[3] ELSE local_header_offset]
\* the block with ID 0x0001: the 8-byte fields are handed out in the order
\* uncompressed size, compressed size, local-header offset to the values
\* that are the sentinel, while the declared data_size has room;
\* struct.unpack('<Q', ...) of a slice cut short by the end of the extra
\* field raises struct.error
Zip64Values(block, compressed_size, uncompressed_size, local_header_offset) ==
    LET data_size == block.data_size
        takes_u == uncompressed_size = SENTINEL32 /\ 8 <= data_size
        offset_c == IF takes_u THEN 8 ELSE 0
        takes_c == compressed_size = SENTINEL32 /\ offset_c + 8 <= data_size
        offset_o == IF takes_c THEN offset_c + 8 ELSE offset_c
        takes_o == local_header_offset = SENTINEL32 /\ offset_o + 8 <= data_size
        raised == \/ takes_u /\ Len(block.fields) < 1
                  \/ takes_c /\ Len(block.fields) < (offset_c \div 8) + 1
                  \/ takes_o /\ Len(block.fields) < (offset_o \div 8) + 1
    IN IF raised
       THEN [raised |-> TRUE, uncompressed_size |-> uncompressed_size,
             compressed_size |-> compressed_size,
             local_header_offset |-> local_header_offset]
       ELSE [raised |-> FALSE,
             uncompressed_size |->
                IF takes_u THEN block.fields[1] ELSE uncompressed_size,
             compressed_size |->
                IF takes_c THEN block.fields[(offset_c \div 8) + 1] ELSE compressed_size,
             local_header_offset |->
                IF takes_o THEN block.fields[(offset_o \div 8) + 1]
                ELSE local_header_offset]

\* the while loop over the blocks of extra_data: the first block with ID
\* 0x0001 decides, blocks with other IDs are stepped over; None without one
RECURSIVE ParseZip64ExtraField(_, _, _, _)
ParseZip64ExtraField(extra_data, compressed_size, uncompressed_size, local_header_offset) ==
    IF extra_data = << >> THEN None
    ELSE IF Head(extra_data).header_id = ZIP64_EXTRA_ID
    THEN Some(Zip64Values(Head(extra_data), compressed_size, uncompressed_size,
                          local_header_offset))
    ELSE ParseZip64ExtraField(Tail(extra_data), compressed_size,
                              uncompressed_size, local_header_offset)

\* filename.endswith('/')
EndsWithSlash(filename) == filename # << >> /\ filename[Len(filename)] = "/"

\* f"unnamed_file_{entry_count}"
Unnamed(entry_count) == << "unnamed_file_" \o ToString(entry_count) >>

\* the sizes and offset of a record after the ZIP64 extra was looked at
RealValues(record, extra_read) ==
    LET raw == [raised |-> FALSE, uncompressed_size |-> record.uncompressed_size,
                compressed_size |-> record.compressed_size,
                local_header_offset |-> record.local_header_offset]
        zip64_info == ParseZip64ExtraField(record.extra, record.compressed_size,
                                           record.uncompressed_size,
                                           record.local_header_offset)
    IN IF extra_read /\ zip64_info # None THEN zip64_info[1] ELSE raw

EligibleAlways(filename, real) == TRUE
\* if not filename.endswith('/') and (real_compressed_size > 0 or
\* real_uncompressed_size > 0)
Eligible(filename, real) ==
    ~EndsWithSlash(filename) /\ (real.compressed_size > 0 \/ real.uncompressed_size > 0)

\* 46 bytes of a file name that spell a central header: the signature
\* 50 4b 01 02 and 42 bytes of fields
HEADER_IN_NAME == [i \in 1..CENTRAL_HEADER_LEN |->
                     CASE i = 1 -> "P" [] i = 2 -> "K" [] i = 3 -> "\\1" [] i = 4 -> "\\2"
                       [] OTHER -> "\\0"]

\* what the walk finds 46 bytes after the start of a record, where the
\* name of the record begins: when the name starts with the bytes of a
\* central header, the record that header describes (one stored byte, its
\* name the rest of the name, its comment the rest of the record);
\* otherwise bytes without the signature
NameAsRecord(record) ==
    IF /\ Len(record.filename) >= CENTRAL_HEADER_LEN
       /\ SubSeq(record.filename, 1, CENTRAL_HEADER_LEN) = HEADER_IN_NAME
    THEN [record EXCEPT
            !.filename = SubSeq(record.filename, CENTRAL_HEADER_LEN + 1,
                                Len(record.filename)),
            !.compressed_size = 1, !.uncompressed_size = 1,
            !.compression_method = 0, !.crc32 = 0, !.local_header_offset = 0,
            !.extra = << >>,
            !.comment_len = ExtraLen(record.extra) + record.comment_len]
    ELSE [record EXCEPT !.signature = 0, !.filename = << >>, !.extra = << >>,
                        !.comment_len = 0]

\* the while loop over cd_data from the record records[k] at offset on, with
\* entry_count records looked at and catalog filled so far
RECURSIVE WalkFrom(_, _, _, _, _, _)
WalkFrom(records, cd_len, k, offset, entry_count, catalog) ==
    IF offset >= cd_len \/ k > Len(records) THEN catalog
    ELSE IF offset + CENTRAL_HEADER_LEN > cd_len THEN catalog
    ELSE LET record == records[k]
             filename_end == offset + CENTRAL_HEADER_LEN + Len(record.filename)
             extra_len == ExtraLen(record.extra)
             filename == IF Len(record.filename) > 0 THEN record.filename
                         ELSE Unnamed(entry_count + 1)
             real == RealValues(record, extra_len > 0 /\ filename_end + extra_len <= cd_len)
             entry == [filename |-> filename,
                       compressed_size |-> real.compressed_size,
                       uncompressed_size |-> real.uncompressed_size,
                       compression_method |-> record.compression_method,
                       local_header_offset |-> real.local_header_offset,
                       crc32 |-> record.crc32]
         IN IF record.signature # CENTRAL_HEADER_SIGNATURE THEN catalog
            ELSE IF filename_end > cd_len THEN catalog
            \* except Exception: offset += 46; continue
            ELSE IF real.raised
            THEN WalkFrom([records EXCEPT ![k] = NameAsRecord(record)], cd_len, k,
                          offset + CENTRAL_HEADER_LEN, entry_count + 1, catalog)
            ELSE WalkFrom(records, cd_len, k + 1,
                          filename_end + extra_len + record.comment_len,
                          entry_count + 1,
                          IF Eligible(filename, real) THEN Append(catalog, entry)
                          ELSE catalog)

\* length of cd_data when the whole central directory is read
RECURSIVE CentralDirectoryLen(_)
CentralDirectoryLen(records) ==
    IF records = << >> THEN 0
    ELSE CENTRAL_HEADER_LEN + Len(Head(records).filename) + ExtraLen(Head(records).extra)
           + Head(records).comment_len + CentralDirectoryLen(Tail(records))

\* files_info as _parse_central_directory leaves it: the key is file_count
ParseCentralDirectory(records) ==
    LET catalog == WalkFrom(records, CentralDirectoryLen(records), 1, 0, 0, << >>)
    IN [key \in 0..(Len(catalog) - 1) |-> catalog[key + 1]]

CatalogAfterSizeOverrideStored(info, file_index, expected_size) ==
    [info EXCEPT ![file_index].compressed_size = expected_size]
\* "expected_size = actual_compressed_size" binds the local name only: the
\* entry file_info refers to keeps its compressed_size
CatalogAfterSizeOverride(info, file_index, expected_size) == info

(***************************************************************************)
(* decompress_data                                                         *)
(***************************************************************************)
SUPPORTED_METHODS == {0, 8, 12, 14}

DecompressDataAnyMethod(data, compression_method, codec_raises) ==
    IF compression_method \in SUPPORTED_METHODS /\ compression_method # 0 /\ codec_raises
    THEN None
    ELSE Some([decoded |-> compression_method # 0, of |-> data])

\* the codec either returns the decompressed bytes or raises; the bytes it
\* returns are left symbolic.  None when the method is unsupported or the
\* codec raised.
DecompressData(data, compression_method, codec_raises) ==
    IF compression_method = 0 THEN Some([decoded |-> FALSE, of |-> data])
    ELSE IF compression_method \in SUPPORTED_METHODS
    THEN IF codec_raises THEN None ELSE Some([decoded |-> TRUE, of |-> data])
    ELSE None

\* final_data after "if compression_method != 0": the decompressed bytes, or
\* the compressed bytes when decompress_data returned None
FinalData(joined, compression_method, decompressed) ==
    IF compression_method # 0 /\ decompressed # None
    THEN decompressed[1]
    ELSE [decoded |-> FALSE, of |-> joined]

VerifyAfterDecompressKept(verify_integrity, compression_method, decompressed) ==
    verify_integrity
\* verify_integrity at "if verify_integrity": set to False when decompress_data
\* returned None
VerifyAfterDecompress(verify_integrity, compression_method, decompressed) ==
    IF compression_method # 0 /\ decompressed = None THEN FALSE ELSE verify_integrity

(***************************************************************************)
(* State                                                                   *)
(***************************************************************************)
VARIABLES
    \* the chunk plan of one extraction, walked chunk by chunk
    plan_offset,      \* data_offset (P)
    plan_size,        \* expected_size after the local-header probe (C)
    plan_idx,         \* next idx handed to fetch_chunk
    plan_ranges,      \* Range headers requested so far, in idx order
    \* the construction of the handle (__init__)
    open_pc,                  \* the request awaited, "constructed" or "failed"
    validate_probe_status,    \* status of the bytes=0-0 GET of _validate_url, 0 before
    initialize_probe_status,  \* status of the bytes=0-0 GET of _initialize, 0 before
    head_content_length,      \* Content-Length header of the HEAD of _initialize
    probe_content_range,      \* total of the Content-Range header of that GET
    structure_reads,          \* ranges read in search of the end of central directory
    \* the handle (EnhancedRemoteZipReader)
    actual_url,                \* None until the HEAD of _initialize answered
    file_size,
    files_info,                \* catalog: index 0..n-1 -> member entry
    current_display_mapping,   \* display index -> catalog index
    \* one call of download_file
    pc,                 \* where the calling thread stands
    result,             \* None while running, Some(TRUE / FALSE) once returned
    frame,              \* its arguments and locals
    main_read,          \* the _read_bytes call of the calling thread
    header,             \* the 30 header bytes read, until the variable part is read
    tasks,              \* idx -> the future of fetch_chunk(idx)
    downloaded_chunks,  \* the slot vector
    reordered,          \* a future was handed out before one of lower idx
    downloaded_bytes,
    downloaded_bytes_lock,   \* None, or Some(idx) of the holder
    compressed_data,    \* None until joined
    codec_raised,       \* the codec was called and raised
    crc_result,         \* "skipped", "passed" or "failed"
    crc_data,           \* None, or Some(bytes handed to _verify_crc32)
    artifact,           \* None, or Some(bytes written to output_path)
    \* the archive behind the URL and the caller of download_file
    central_directory,  \* the records of the central directory the server holds
    bulk,               \* the call of download_bulk under way, if any
    \* the search for the end of central directory
    archive_tail,       \* the records the server holds at the end of the archive
    locate              \* one call of _find_end_of_central_directory

planVars == << plan_offset, plan_size, plan_idx, plan_ranges >>
openVars == << open_pc, validate_probe_status, initialize_probe_status,
              head_content_length, probe_content_range, structure_reads >>
handleVars == << actual_url, file_size, files_info, current_display_mapping >>
poolVars == << tasks, downloaded_chunks, reordered, downloaded_bytes,
              downloaded_bytes_lock >>
outVars == << compressed_data, codec_raised, crc_result, crc_data, artifact >>
callVars == << pc, result, frame, main_read, header, poolVars, outVars >>

endVars == << archive_tail, locate >>
outerVars == << central_directory, bulk, endVars >>

vars == << planVars, openVars, handleVars, callVars, outerVars >>

(***************************************************************************)
(* The archive behind the handle                                           *)
(***************************************************************************)
\* compressed size and method of the members, in central-directory order:
\* an empty payload, one-byte payloads (STORED, LZMA, and the unsupported
\* WinZip AES) and a DEFLATE payload one byte longer than MaxChunks - 1 chunks
CatalogSizes == << 0, 1, 1, 1, (MaxChunks - 1) * CHUNK_SMALL + 1 >>
CatalogMethods == << 0, 0, 14, 99, 8 >>

\* no call of _find_end_of_central_directory made; the archive ends with a
\* plain end record
NotLocating == [reader |-> "", pc |-> "idle", error |-> "", eocd_offset |-> 0,
                zip64_path |-> FALSE, fallback |-> FALSE, zip64_locator_pos |-> 0,
                zip64_eocd_offset |-> 0, cd_offset |-> 0, cd_size |-> 0]
EndIdle ==
    /\ archive_tail = << >>
    /\ locate = NotLocating

\* room taken by one member: local header, name, extra, payload
MaxExtraLen == 2 * (4 + 16)
MemberSpan == LOCAL_HEADER_LEN + MaxNameLen + MaxExtraLen + MaxChunks * CHUNK_SMALL
NumMembers == Len(CatalogSizes)
\* members first, then the central directory and the 22 bytes of its end record
CentralDirectoryOffset == NumMembers * MemberSpan
ArchiveLengthOf(records) == CentralDirectoryOffset + CentralDirectoryLen(records) + 22

CatalogNames ==
    << << "a" >>, << "b", ":" >>, << "d", "/", "c" >>, << ".", ".", "/", "e" >>, << "f" >> >>

ARCHIVE_URL == "https://host/archive.zip"

\* the central directory of the archive: one record for each member
ArchiveRecords ==
    [k \in 1..NumMembers |->
        [signature |-> CENTRAL_HEADER_SIGNATURE,
         filename |-> CatalogNames[k],
         compressed_size |-> CatalogSizes[k],
         uncompressed_size |-> CatalogSizes[k] + 1,
         compression_method |-> CatalogMethods[k],
         crc32 |-> k - 1,
         local_header_offset |-> (k - 1) * MemberSpan,
         extra |-> << >>,
         comment_len |-> 0]]

ArchiveLength == ArchiveLengthOf(ArchiveRecords)

\* files_info once list_files has run on that archive
Catalog == ParseCentralDirectory(ArchiveRecords)

\* no call of download_bulk under way
NoBulk == [active |-> FALSE, display_file_numbers |-> << >>,
           actual_file_numbers |-> << >>, done |-> 0, results |-> << >>,
           verify_integrity |-> FALSE]

\* results[actual_file_num] = success
SetResult(results, actual_file_num, success) ==
    [key \in DOMAIN results \cup {actual_file_num} |->
        IF key = actual_file_num THEN success ELSE results[key]]

\* compressed sizes a local header may report or carry in its ZIP64 extra
LocalSizes == {0, 1, 2}

Zip64Block(fields) == [header_id |-> ZIP64_EXTRA_ID, data_size |-> 8 * Len(fields),
                       fields |-> fields]
\* a block with another ID (0x5455, extended timestamp)
OtherBlock == [header_id |-> 21589, data_size |-> 4, fields |-> << >>]

PlainHeaders ==
    [signature : {LOCAL_HEADER_SIGNATURE, 0},
     compressed_size : LocalSizes, uncompressed_size : {1},
     filename_len : {0}, extra : {<< >>}]

Zip64Headers ==
    [signature : {LOCAL_HEADER_SIGNATURE},
     compressed_size : {SENTINEL32}, uncompressed_size : {1, SENTINEL32},
     filename_len : {MaxNameLen},
     extra : { << Zip64Block(<< 1, c >>) >> : c \in LocalSizes }
               \cup { << OtherBlock, Zip64Block(<< c >>) >> : c \in LocalSizes }]

\* the local headers the archive may hold, kept to payloads of at most
\* MaxChunks chunks
LocalHeaders ==
    { h \in PlainHeaders \cup Zip64Headers :
        LocalCompressedSize(h) <= MaxChunks * CHUNK_SMALL }

(***************************************************************************)
(* The chunk plan: fetch_chunk(0), ..., fetch_chunk(N-1)                   *)
(***************************************************************************)
PlanSizes ==
    { k * CHUNK_SMALL + r : k \in 0..MaxPlanChunks, r \in {0, 1, CHUNK_SMALL - 1} }
      \cup { MEDIUM_THRESHOLD, MEDIUM_THRESHOLD + 1,
             LARGE_THRESHOLD, LARGE_THRESHOLD + 1 }

PlanOffsets == { 0, LOCAL_HEADER_LEN } \cup { LOCAL_HEADER_LEN + k : k \in 1..MaxPlanOffset }

NoFrame == [display_file_number |-> 0, file_index |-> 0, expected_size |-> 0, verify_integrity |-> FALSE,
            max_workers |-> 0, data_offset |-> 0, chunk_size |-> 0,
            total_chunks |-> 0, output_path |-> << >>]

\* the locals of download_file other than the frame, before its first read
CallFresh ==
    /\ result = None
    /\ main_read = NewRead
    /\ header = None
    /\ tasks = [i \in {} |-> 0]
    /\ downloaded_chunks = [i \in {} |-> 0]
    /\ reordered = FALSE
    /\ downloaded_bytes = 0
    /\ downloaded_bytes_lock = None
    /\ compressed_data = None
    /\ codec_raised = FALSE
    /\ crc_result = "skipped"
    /\ crc_data = None
    /\ artifact = None

\* no call of download_file made yet
CallIdle ==
    /\ pc = "idle"
    /\ frame = NoFrame
    /\ CallFresh

\* a header that is absent, present but not a number, or a number
NoHeader == [present |-> FALSE, parses |-> FALSE, value |-> 0]
BadHeader == [present |-> TRUE, parses |-> FALSE, value |-> 0]
NumHeader(n) == [present |-> TRUE, parses |-> TRUE, value |-> n]

\* the handle once the catalog is listed without a filter
HandleListed ==
    /\ open_pc = "constructed"
    /\ validate_probe_status = PARTIAL_CONTENT
    /\ initialize_probe_status = PARTIAL_CONTENT
    /\ head_content_length = NumHeader(ArchiveLength)
    /\ probe_content_range = NumHeader(ArchiveLength)
    /\ structure_reads = << >>
    /\ actual_url = Some(ARCHIVE_URL)
    /\ file_size = ArchiveLength
    /\ files_info = Catalog
    /\ current_display_mapping = [i \in DOMAIN Catalog |-> i]
    /\ central_directory = ArchiveRecords
    /\ EndIdle
    /\ bulk = NoBulk

\* values of the max_workers argument: below, at and above the default
PlanWorkerArgs == { 1, DEFAULT_MAX_WORKERS, 2 * DEFAULT_MAX_WORKERS }

\* download_file(..., max_workers) at the point where the final size C and
\* the payload offset P are known
PlanInit ==
    /\ plan_offset \in PlanOffsets
    /\ plan_size \in PlanSizes
    /\ plan_idx = 0
    /\ plan_ranges = << >>
    /\ HandleListed
    /\ pc = "idle"
    /\ \E max_workers \in PlanWorkerArgs :
          frame = [NoFrame EXCEPT !.max_workers = max_workers]
    /\ CallFresh

PlanChunkSize == ChunkSize(plan_size)
PlanTotalChunks == TotalChunks(plan_size, PlanChunkSize)

\* chunk_size, max_workers and total_chunks are set from expected_size
PlanGeometry ==
    /\ frame.chunk_size = 0
    /\ frame' = [frame EXCEPT
                   !.data_offset = plan_offset,
                   !.expected_size = plan_size,
                   !.chunk_size = PlanChunkSize,
                   !.max_workers = Workers(plan_size, frame.max_workers),
                   !.total_chunks = PlanTotalChunks]
    /\ UNCHANGED << planVars, openVars, handleVars, pc, result, main_read, header,
                    poolVars, outVars, outerVars >>

\* one call fetch_chunk(plan_idx): the range it asks _read_bytes for
PlanFetchChunk ==
    /\ frame.chunk_size > 0
    /\ plan_idx < PlanTotalChunks
    /\ plan_ranges' = Append(plan_ranges,
         RangeOf(ChunkStart(plan_offset, PlanChunkSize, plan_idx),
                 ChunkLength(plan_offset, plan_size, PlanChunkSize, plan_idx)))
    /\ plan_idx' = plan_idx + 1
    /\ UNCHANGED << plan_offset, plan_size, openVars, handleVars, callVars, outerVars >>

PlanNext == PlanGeometry \/ PlanFetchChunk

SpecPlan == PlanInit /\ [][PlanNext]_vars

(***************************************************************************)
(* __init__, _validate_url, _initialize                                    *)
(***************************************************************************)
NOT_IMPLEMENTED == 501
EOCD_SEARCH_SIZE == 4096

\* statuses the server may answer a HEAD and a ranged GET with
HeadStatuses == {OK, 403, NOT_IMPLEMENTED}
ProbeStatuses == {PARTIAL_CONTENT, OK, 403, 404, 416, NOT_IMPLEMENTED}
OpenLengths == {0, 22, ArchiveLength}
LengthHeaders == {NoHeader, BadHeader} \cup { NumHeader(n) : n \in OpenLengths }

OpenInit ==
    /\ open_pc = "validate_head"
    /\ validate_probe_status = 0
    /\ initialize_probe_status = 0
    /\ head_content_length = NoHeader
    /\ probe_content_range = NoHeader
    /\ structure_reads = << >>
    /\ actual_url = None
    /\ file_size = 0
    /\ files_info = [i \in {} |-> 0]
    /\ current_display_mapping = [i \in {} |-> 0]
    /\ central_directory = ArchiveRecords
    /\ EndIdle
    /\ bulk = NoBulk
    /\ plan_offset = 0
    /\ plan_size = 0
    /\ plan_idx = 0
    /\ plan_ranges = << >>
    /\ CallIdle

\* if test_resp.status_code == 501 / if test_response.status_code == 501
RangeUnsupportedNever(status) == FALSE
RangeUnsupported(status) == status = NOT_IMPLEMENTED

\* the total length _initialize settles on: None when it raises
\* ("Cannot determine file size", or int() fails on the header)
LengthOrZero(content_length, status, content_range) ==
    IF content_length.present /\ content_length.parses THEN Some(content_length.value)
    ELSE IF content_range.present /\ content_range.parses THEN Some(content_range.value)
    ELSE Some(0)
DetermineFileSize(content_length, status, content_range) ==
    IF content_length.present
    THEN IF content_length.parses THEN Some(content_length.value) ELSE None
    ELSE IF status = PARTIAL_CONTENT /\ content_range.present
    THEN IF content_range.parses THEN Some(content_range.value) ELSE None
    ELSE None

\* _validate_url: session.head(url); a timeout or connection error returns False
ValidateHead(raised, status) ==
    /\ open_pc = "validate_head"
    /\ open_pc' = IF raised \/ status >= 400 THEN "failed" ELSE "validate_probe"
    /\ UNCHANGED << validate_probe_status, initialize_probe_status, head_content_length,
                    probe_content_range, structure_reads, handleVars, planVars, outerVars, callVars >>

\* _validate_url: session.get(url, Range: bytes=0-0); back in __init__ the
\* fields of the handle are set
ValidateProbe(raised, status) ==
    /\ open_pc = "validate_probe"
    /\ validate_probe_status' = IF raised THEN 0 ELSE status
    /\ open_pc' = IF raised \/ RangeUnsupported(status) THEN "failed" ELSE "initialize_head"
    /\ UNCHANGED << initialize_probe_status, head_content_length,
                    probe_content_range, structure_reads, handleVars, planVars, outerVars, callVars >>

\* _initialize: session.head(url), whose status is not looked at
InitializeHead(raised, content_length) ==
    /\ open_pc = "initialize_head"
    /\ open_pc' = IF raised THEN "failed" ELSE "initialize_probe"
    /\ head_content_length' = IF raised THEN NoHeader ELSE content_length
    /\ actual_url' = IF raised THEN None ELSE Some(ARCHIVE_URL)
    /\ UNCHANGED << validate_probe_status, initialize_probe_status,
                    probe_content_range, structure_reads, file_size, files_info,
                    current_display_mapping, planVars, outerVars, callVars >>

\* _initialize: session.get(actual_url, Range: bytes=0-0) and the file size
InitializeProbe(raised, status, content_range) ==
    /\ open_pc = "initialize_probe"
    /\ initialize_probe_status' = IF raised THEN 0 ELSE status
    /\ probe_content_range' = IF raised THEN NoHeader ELSE content_range
    /\ LET size == DetermineFileSize(head_content_length, status, content_range)
       IN IF raised \/ RangeUnsupported(status) \/ size = None
          THEN /\ open_pc' = "failed"
               /\ UNCHANGED file_size
          ELSE /\ open_pc' = "constructed"
               /\ file_size' = size[1]
    /\ UNCHANGED << validate_probe_status, head_content_length, structure_reads,
                    actual_url, files_info, current_display_mapping, planVars, outerVars,
                    callVars >>

\* list_files on the handle main() was given: _find_end_of_central_directory
\* reads the trailing window of the archive
FindEndOfCentralDirectory ==
    /\ open_pc = "constructed"
    /\ structure_reads = << >>
    /\ LET search_size == Min(EOCD_SEARCH_SIZE, file_size)
       IN structure_reads' = << RangeOf(file_size - search_size, search_size) >>
    /\ UNCHANGED << open_pc, validate_probe_status, initialize_probe_status,
                    head_content_length, probe_content_range, handleVars, planVars, outerVars,
                    callVars >>

OpenNext ==
    \/ \E raised \in BOOLEAN, status \in HeadStatuses : ValidateHead(raised, status)
    \/ \E raised \in BOOLEAN, status \in ProbeStatuses : ValidateProbe(raised, status)
    \/ \E raised \in BOOLEAN, content_length \in LengthHeaders :
          InitializeHead(raised, content_length)
    \/ \E raised \in BOOLEAN, status \in ProbeStatuses, content_range \in LengthHeaders :
          InitializeProbe(raised, status, content_range)
    \/ FindEndOfCentralDirectory

SpecOpen == OpenInit /\ [][OpenNext]_vars

(***************************************************************************)
(* The output path of download_file                                        *)
(***************************************************************************)
\* the characters the sanitizer replaces by "_"
RESERVED_CHARACTERS == { "/", "\\", ":", "*", "?", "\"", "<", ">", "|" }

\* internal_path.split('/'): the parts between the separators, at least one
RECURSIVE SplitFrom(_, _, _, _)
SplitFrom(filename, k, part, parts) ==
    IF k > Len(filename) THEN Append(parts, part)
    ELSE IF filename[k] = "/" THEN SplitFrom(filename, k + 1, << >>, Append(parts, part))
    ELSE SplitFrom(filename, k + 1, Append(part, filename[k]), parts)

Split(filename) == SplitFrom(filename, 1, << >>, << >>)

\* the chain of p.replace(c, '_') over the reserved characters
Sanitize(part) ==
    [k \in DOMAIN part |-> IF part[k] \in RESERVED_CHARACTERS THEN "_" ELSE part[k]]

\* safe_parts, the components os.path.join appends to output_dir
OutputPath(filename) ==
    LET parts == Split(filename)
    IN [k \in DOMAIN parts |-> Sanitize(parts[k])]

\* how many directories below output_dir the first k components of the
\* joined path lead, as the file system resolves them: ".." goes up one, "."
\* and the empty component stay
RECURSIVE Depth(_, _)
Depth(safe_parts, k) ==
    IF k = 0 THEN 0
    ELSE Depth(safe_parts, k - 1) +
           (CASE safe_parts[k] = << ".", "." >> -> -1
              [] safe_parts[k] \in { << >>, << "." >> } -> 0
              [] OTHER -> 1)

(***************************************************************************)
(* download_file                                                           *)
(***************************************************************************)
Init ==
    /\ plan_offset = 0
    /\ plan_size = 0
    /\ plan_idx = 0
    /\ plan_ranges = << >>
    /\ HandleListed
    /\ CallIdle

\* _get_actual_file_index
GetActualFileIndex(display_index) ==
    IF display_index \in DOMAIN current_display_mapping
    THEN current_display_mapping[display_index]
    ELSE display_index

DisplayNumbers == 0..(NumMembers + 1)
\* download_bulk and main() never pass max_workers
WorkerArgs == {DEFAULT_MAX_WORKERS}

\* the call returns False: nothing was joined, verified or written
ReturnFalse ==
    /\ pc' = "returned"
    /\ result' = Some(FALSE)

\* entry of download_file up to the first read of the local header
EnterDownloadFile(display_file_number, max_workers, verify_integrity) ==
    /\ pc = "idle"
    /\ LET actual_file_index == GetActualFileIndex(display_file_number - 1)
       IN IF actual_file_index < 0 \/ actual_file_index >= Cardinality(DOMAIN files_info)
          THEN /\ ReturnFalse
               /\ frame' = NoFrame
          ELSE /\ pc' = "local_header"
               /\ result' = None
               /\ frame' = [NoFrame EXCEPT
                              !.display_file_number = display_file_number,
                              !.file_index = actual_file_index,
                              !.expected_size = files_info[actual_file_index].compressed_size,
                              !.verify_integrity = verify_integrity,
                              !.max_workers = max_workers]
    /\ UNCHANGED << main_read, header, poolVars, outVars, planVars, central_directory, endVars,
                    openVars, handleVars >>

\* download_file called by main()
DownloadFile(display_file_number, max_workers, verify_integrity) ==
    /\ ~bulk.active
    /\ EnterDownloadFile(display_file_number, max_workers, verify_integrity)
    /\ UNCHANGED bulk

\* the caller has the result: the frame of the call is gone and the handle
\* is ready for the next call; in download_bulk, results[actual_file_num] =
\* success and the loop goes on
Returned ==
    /\ pc = "returned"
    /\ pc' = "idle"
    /\ result' = None
    /\ frame' = NoFrame
    /\ main_read' = NewRead
    /\ header' = None
    /\ tasks' = [i \in {} |-> 0]
    /\ downloaded_chunks' = [i \in {} |-> 0]
    /\ reordered' = FALSE
    /\ downloaded_bytes' = 0
    /\ downloaded_bytes_lock' = None
    /\ compressed_data' = None
    /\ codec_raised' = FALSE
    /\ crc_result' = "skipped"
    /\ crc_data' = None
    /\ artifact' = None
    /\ bulk' = IF bulk.active
               THEN [bulk EXCEPT
                       !.done = @ + 1,
                       !.results = SetResult(@, bulk.actual_file_numbers[bulk.done + 1],
                                             result[1])]
               ELSE bulk
    /\ UNCHANGED << planVars, central_directory, endVars, openVars, handleVars >>

Entry == files_info[frame.file_index]

\* _get_local_file_header_info: one attempt of _read_bytes(local_header_offset, 30);
\* when it returns, the signature check
LocalHeaderAttempt ==
    /\ pc = "local_header"
    /\ \E resp \in Responses(Entry.local_header_offset, LOCAL_HEADER_LEN, file_size) :
         LET rd == ReadAttempt(main_read, resp)
         IN CASE rd.outcome = "retry" ->
                   /\ main_read' = rd
                   /\ UNCHANGED << pc, result, header >>
              [] rd.outcome = "raised" ->
                   /\ main_read' = rd
                   /\ ReturnFalse
                   /\ UNCHANGED header
              [] rd.outcome = "returned" ->
                   \E h \in LocalHeaders :
                      IF h.signature # LOCAL_HEADER_SIGNATURE
                      THEN /\ main_read' = rd
                           /\ header' = Some(h)
                           /\ ReturnFalse
                      ELSE /\ main_read' = NewRead
                           /\ header' = Some(h)
                           /\ pc' = "local_variable"
                           /\ UNCHANGED result
    /\ UNCHANGED << frame, poolVars, outVars, planVars, outerVars, openVars, handleVars >>

\* one attempt of _read_bytes(local_header_offset + 30, filename_len + extra_len);
\* when it returns, the rest of _get_local_file_header_info and download_file
\* up to the submission of the chunk tasks
LocalVariableAttempt ==
    /\ pc = "local_variable"
    /\ LET h == header[1]
       IN \E resp \in Responses(Entry.local_header_offset + LOCAL_HEADER_LEN,
                                h.filename_len + ExtraLen(h.extra), file_size) :
         LET rd == ReadAttempt(main_read, resp)
         IN CASE rd.outcome = "retry" ->
                   /\ main_read' = rd
                   /\ UNCHANGED << pc, result, header, frame, tasks, downloaded_chunks,
                                   files_info >>
              [] rd.outcome = "raised" ->
                   /\ main_read' = rd
                   /\ ReturnFalse
                   /\ header' = None
                   /\ UNCHANGED << frame, tasks, downloaded_chunks, files_info >>
              [] rd.outcome = "returned" ->
                   LET data_offset == DataOffset(Entry.local_header_offset, h)
                       expected_size == FinalSize(frame.expected_size, LocalCompressedSize(h))
                       chunk_size == ChunkSize(expected_size)
                       total_chunks == TotalChunks(expected_size, chunk_size)
                   IN /\ main_read' = NewRead
                      /\ header' = None
                      /\ files_info' = CatalogAfterSizeOverride(files_info, frame.file_index,
                                                               expected_size)
                      /\ frame' = [frame EXCEPT
                                     !.data_offset = data_offset,
                                     !.expected_size = expected_size,
                                     !.output_path = OutputPath(Entry.filename),
                                     !.chunk_size = chunk_size,
                                     !.max_workers = Workers(expected_size, frame.max_workers),
                                     !.total_chunks = total_chunks]
                      /\ tasks' = [i \in 0..(total_chunks - 1) |->
                                     [st |-> "queued", read |-> NewRead, tmp |-> 0]]
                      /\ downloaded_chunks' = [i \in 0..(total_chunks - 1) |-> None]
                      /\ pc' = "pool"
                      /\ UNCHANGED result
    /\ UNCHANGED << reordered, downloaded_bytes, downloaded_bytes_lock, outVars,
                    planVars, outerVars, openVars, actual_url, file_size,
                    current_display_mapping >>

Running == { i \in DOMAIN tasks : tasks[i].st \in {"running", "fetched", "loaded"} }
FinishedNoWait == DOMAIN tasks
\* futures that hold a result or an exception; "collected" once the loop over
\* as_completed has handed the future out
Finished == { i \in DOMAIN tasks : tasks[i].st \in {"done", "failed", "collected"} }

\* a pool thread takes the oldest queued work item
TaskStart(i) ==
    /\ pc \in {"pool", "failing"}
    /\ tasks[i].st = "queued"
    /\ \A j \in DOMAIN tasks : j < i => tasks[j].st # "queued"
    /\ Cardinality(Running) < frame.max_workers
    /\ tasks' = [tasks EXCEPT ![i].st = "running"]
    /\ UNCHANGED << pc, result, frame, main_read, header, downloaded_chunks,
                    reordered, downloaded_bytes, downloaded_bytes_lock, outVars,
                    planVars, outerVars, openVars, handleVars >>

\* fetch_chunk(i): one attempt of its _read_bytes(start, end - start + 1)
TaskAttempt(i) ==
    /\ pc \in {"pool", "failing"}
    /\ tasks[i].st = "running"
    /\ \E resp \in Responses(ChunkStart(frame.data_offset, frame.chunk_size, i),
                             ChunkLength(frame.data_offset, frame.expected_size,
                                         frame.chunk_size, i),
                             file_size) :
         LET rd == ReadAttempt(tasks[i].read, resp)
         IN tasks' = [tasks EXCEPT
                        ![i].read = rd,
                        ![i].st = CASE rd.outcome = "retry" -> "running"
                                    [] rd.outcome = "raised" -> "failed"
                                    [] rd.outcome = "returned" -> "fetched"]
    /\ UNCHANGED << pc, result, frame, main_read, header, downloaded_chunks,
                    reordered, downloaded_bytes, downloaded_bytes_lock, outVars,
                    planVars, outerVars, openVars, handleVars >>

TaskAcquireNoLock(i) ==
    /\ pc \in {"pool", "failing"}
    /\ tasks[i].st = "fetched"
    /\ downloaded_bytes_lock' = Some(i)
    /\ tasks' = [tasks EXCEPT ![i].st = "loaded", ![i].tmp = downloaded_bytes]
    /\ UNCHANGED << pc, result, frame, main_read, header, downloaded_chunks,
                    reordered, downloaded_bytes, outVars, planVars, outerVars, openVars, handleVars >>
\* fetch_chunk(i): with downloaded_bytes_lock, and the load of
\* downloaded_bytes += len(chunk)
TaskAcquire(i) ==
    /\ pc \in {"pool", "failing"}
    /\ tasks[i].st = "fetched"
    /\ downloaded_bytes_lock = None
    /\ downloaded_bytes_lock' = Some(i)
    /\ tasks' = [tasks EXCEPT ![i].st = "loaded", ![i].tmp = downloaded_bytes]
    /\ UNCHANGED << pc, result, frame, main_read, header, downloaded_chunks,
                    reordered, downloaded_bytes, outVars, planVars, outerVars, openVars, handleVars >>

TaskStoreKeepsLock(i) ==
    /\ pc \in {"pool", "failing"}
    /\ tasks[i].st = "loaded"
    /\ downloaded_bytes' = tasks[i].tmp + ByteLen(tasks[i].read.content)
    /\ tasks' = [tasks EXCEPT ![i].st = "done"]
    /\ UNCHANGED << pc, result, frame, main_read, header, downloaded_chunks,
                    downloaded_bytes_lock, reordered, outVars, planVars, outerVars,
                    openVars, handleVars >>
\* fetch_chunk(i): the store of downloaded_bytes, the release of the lock and
\* the return of (idx, chunk)
TaskStore(i) ==
    /\ pc \in {"pool", "failing"}
    /\ tasks[i].st = "loaded"
    /\ downloaded_bytes' = tasks[i].tmp + ByteLen(tasks[i].read.content)
    /\ downloaded_bytes_lock' = None
    /\ tasks' = [tasks EXCEPT ![i].st = "done"]
    /\ UNCHANGED << pc, result, frame, main_read, header, downloaded_chunks,
                    reordered, outVars, planVars, outerVars, openVars, handleVars >>

SlotOfCompletion(idx) ==
    Cardinality({ j \in DOMAIN downloaded_chunks : downloaded_chunks[j] # None })
\* downloaded_chunks[idx] = chunk_data: the slot of the chunk of task idx
SlotOf(idx) == idx

CollectSwallowsError(i) ==
    /\ pc = "pool"
    /\ tasks[i].st \in {"done", "failed"}
    /\ downloaded_chunks' =
          IF tasks[i].st = "done"
          THEN [downloaded_chunks EXCEPT ![SlotOf(i)] = Some(tasks[i].read.content)]
          ELSE downloaded_chunks
    /\ tasks' = [tasks EXCEPT ![i].st = "collected"]
    /\ reordered' = (reordered \/ \E j \in DOMAIN tasks :
                                     j < i /\ tasks[j].st # "collected")
    /\ UNCHANGED << pc, result, frame, main_read, header,
                    downloaded_bytes, downloaded_bytes_lock, outVars,
                    planVars, outerVars, openVars, handleVars >>
\* the loop over as_completed(futures): a finished future is handed out;
\* future.result() stores its chunk or re-raises the error of the task, which
\* leaves the with block
Collect(i) ==
    /\ pc = "pool"
    /\ tasks[i].st \in {"done", "failed"}
    /\ IF tasks[i].st = "done"
       THEN /\ downloaded_chunks' =
                 [downloaded_chunks EXCEPT ![SlotOf(i)] = Some(tasks[i].read.content)]
            /\ tasks' = [tasks EXCEPT ![i].st = "collected"]
            /\ reordered' = (reordered \/ \E j \in DOMAIN tasks :
                                             j < i /\ tasks[j].st # "collected")
            /\ UNCHANGED pc
       ELSE /\ pc' = "failing"
            /\ UNCHANGED << downloaded_chunks, tasks, reordered >>
    /\ UNCHANGED << result, frame, main_read, header,
                    downloaded_bytes, downloaded_bytes_lock, outVars,
                    planVars, outerVars, openVars, handleVars >>

\* the slot vector as the sequence handed to b''.join
SlotSeq == [k \in 1..Cardinality(DOMAIN downloaded_chunks) |-> downloaded_chunks[k - 1]]

\* b''.join(downloaded_chunks) raises TypeError on a slot that is still None
JoinRaises == \E k \in DOMAIN SlotSeq : SlotSeq[k] = None

\* the with block is left on an exception: shutdown(wait=True) returns once
\* every submitted task has run, then the except clause returns False
JoinFailed ==
    /\ pc = "failing"
    /\ Finished = DOMAIN tasks
    /\ ReturnFalse
    /\ UNCHANGED << frame, main_read, header, poolVars, outVars, planVars, outerVars, openVars, handleVars >>

\* every future was handed out: the with block ends, the payload is joined,
\* decompressed, verified and written
Finish(codec_raises, crc_matches) ==
    /\ pc = "pool"
    /\ \A i \in DOMAIN tasks : tasks[i].st = "collected"
    /\ IF JoinRaises
       THEN /\ ReturnFalse
            /\ UNCHANGED outVars
       ELSE LET joined == Join([k \in DOMAIN SlotSeq |-> SlotSeq[k][1]])
                compression_method == Entry.compression_method
                decompressed == DecompressData(joined, compression_method, codec_raises)
                final_data == FinalData(joined, compression_method, decompressed)
                verify_integrity == VerifyAfterDecompress(frame.verify_integrity,
                                                          compression_method, decompressed)
            IN /\ compressed_data' = Some(joined)
               /\ codec_raised' = (compression_method \in SUPPORTED_METHODS \ {0}
                                     /\ codec_raises)
               /\ crc_result' = IF ~verify_integrity THEN "skipped"
                                ELSE IF crc_matches THEN "passed" ELSE "failed"
               /\ crc_data' = IF verify_integrity THEN Some(final_data) ELSE None
               /\ artifact' = Some(final_data)
               /\ pc' = "returned"
               /\ result' = Some(TRUE)
    /\ UNCHANGED << frame, main_read, header, poolVars, planVars, outerVars, openVars, handleVars >>

Next ==
    \/ \E d \in DisplayNumbers, w \in WorkerArgs, v \in BOOLEAN : DownloadFile(d, w, v)
    \/ LocalHeaderAttempt
    \/ LocalVariableAttempt
    \/ \E i \in DOMAIN tasks : TaskStart(i)
    \/ \E i \in DOMAIN tasks : TaskAttempt(i)
    \/ \E i \in DOMAIN tasks : TaskAcquire(i)
    \/ \E i \in DOMAIN tasks : TaskStore(i)
    \/ \E i \in DOMAIN tasks : Collect(i)
    \/ JoinFailed
    \/ Returned
    \/ \E codec_raises \in BOOLEAN, crc_matches \in BOOLEAN : Finish(codec_raises, crc_matches)

Spec == Init /\ [][Next]_vars

\* the steps of a call of download_file that is under way: the main thread's
\* reads, the pool threads' steps, the loop over the futures, the exit of the
\* with block and the return
CallNext ==
    \/ LocalHeaderAttempt
    \/ LocalVariableAttempt
    \/ \E i \in DOMAIN tasks : TaskStart(i)
    \/ \E i \in DOMAIN tasks : TaskAttempt(i)
    \/ \E i \in DOMAIN tasks : TaskAcquire(i)
    \/ \E i \in DOMAIN tasks : TaskStore(i)
    \/ \E i \in DOMAIN tasks : Collect(i)
    \/ JoinFailed
    \/ \E codec_raises \in BOOLEAN, crc_matches \in BOOLEAN : Finish(codec_raises, crc_matches)

\* download_file where every thread that can take a step eventually takes
\* one: requests.get has timeout=30 and time.sleep returns, so no attempt of
\* _read_bytes lasts forever, and the interpreter schedules every runnable
\* thread
SpecLive == Init /\ [][Next]_vars /\ WF_vars(CallNext)

(***************************************************************************)
(* list_files, search_files, download_bulk                                 *)
(***************************************************************************)
\* pattern.search(info['filename']) for a pattern of one literal character,
\* and "filter_lower in info['filename'].lower()" when the pattern is not a
\* regular expression: the character occurs in the name
Matches(pattern, filename) == \E i \in DOMAIN filename : filename[i] = pattern

\* the catalog keys whose name matches, in catalog order
Matching(info, pattern) == { idx \in DOMAIN info : Matches(pattern, info[idx].filename) }

\* current_display_mapping as list_files leaves it
DisplayMapping(info, filter_pattern) ==
    IF filter_pattern = None \/ Matching(info, filter_pattern[1]) = {}
    THEN [i \in DOMAIN info |-> i]
    ELSE LET matched == Matching(info, filter_pattern[1])
         IN [display_idx \in 0..(Cardinality(matched) - 1) |->
               CHOOSE idx \in matched :
                   Cardinality({ other \in matched : other < idx }) = display_idx]

\* the reads of _parse_central_directory: the trailing window searched for the
\* end record, then the central directory it points to
StructureReads(size, records) ==
    << RangeOf(size - Min(EOCD_SEARCH_SIZE, size), Min(EOCD_SEARCH_SIZE, size)),
       RangeOf(CentralDirectoryOffset, CentralDirectoryLen(records)) >>

\* if not self.files_info
Parsed(info) == DOMAIN info # {}

\* "if not self.files_info: self._parse_central_directory()": a read that
\* fails after its retries raises out of the caller and leaves the handle as
\* it was
ParseIfNeeded(reads_fail) ==
    IF Parsed(files_info)
    THEN UNCHANGED << files_info, structure_reads >>
    ELSE /\ Len(structure_reads) < 2 * MaxParses
         /\ IF reads_fail
            THEN /\ structure_reads' =
                      Append(structure_reads, StructureReads(file_size, central_directory)[1])
                 /\ UNCHANGED files_info
            ELSE /\ structure_reads' =
                      structure_reads \o StructureReads(file_size, central_directory)
                 /\ files_info' = ParseCentralDirectory(central_directory)

ListFiles(filter_pattern, reads_fail) ==
    /\ pc = "idle"
    /\ ~bulk.active
    /\ ParseIfNeeded(reads_fail)
    /\ current_display_mapping' =
          IF ~Parsed(files_info) /\ reads_fail THEN current_display_mapping
          ELSE DisplayMapping(files_info', filter_pattern)
    /\ UNCHANGED << open_pc, validate_probe_status, initialize_probe_status,
                    head_content_length, probe_content_range, actual_url, file_size,
                    planVars, outerVars, callVars >>

\* search_files returns the matching keys and leaves the view as it is
SearchFiles(pattern, reads_fail) ==
    /\ pc = "idle"
    /\ ~bulk.active
    /\ ParseIfNeeded(reads_fail)
    /\ UNCHANGED << open_pc, validate_probe_status, initialize_probe_status,
                    head_content_length, probe_content_range, actual_url, file_size,
                    current_display_mapping, planVars, outerVars, callVars >>

\* download_bulk up to its loop: actual_file_numbers
DownloadBulk(display_file_numbers, verify_integrity) ==
    /\ pc = "idle"
    /\ ~bulk.active
    /\ bulk' = [active |-> TRUE,
                display_file_numbers |-> display_file_numbers,
                actual_file_numbers |->
                    [k \in DOMAIN display_file_numbers |->
                        GetActualFileIndex(display_file_numbers[k] - 1)],
                done |-> 0,
                results |-> << >>,
                verify_integrity |-> verify_integrity]
    /\ UNCHANGED << planVars, central_directory, endVars, openVars, handleVars, callVars >>

\* the loop of download_bulk: self.download_file(actual_file_num + 1, ...)
BulkDownloadFile ==
    /\ bulk.active
    /\ bulk.done < Len(bulk.actual_file_numbers)
    /\ EnterDownloadFile(bulk.actual_file_numbers[bulk.done + 1] + 1,
                         DEFAULT_MAX_WORKERS, bulk.verify_integrity)
    /\ UNCHANGED bulk

\* download_bulk returns results
DownloadBulkReturn ==
    /\ pc = "idle"
    /\ bulk.active
    /\ bulk.done = Len(bulk.actual_file_numbers)
    /\ bulk' = NoBulk
    /\ UNCHANGED << planVars, central_directory, endVars, openVars, handleVars, callVars >>

\* the handle main() is given: constructed on an archive with the central
\* directory records, nothing listed yet
HandleConstructed(records) ==
    /\ open_pc = "constructed"
    /\ validate_probe_status = PARTIAL_CONTENT
    /\ initialize_probe_status = PARTIAL_CONTENT
    /\ head_content_length = NumHeader(ArchiveLengthOf(records))
    /\ probe_content_range = NumHeader(ArchiveLengthOf(records))
    /\ structure_reads = << >>
    /\ actual_url = Some(ARCHIVE_URL)
    /\ file_size = ArchiveLengthOf(records)
    /\ files_info = << >>
    /\ current_display_mapping = << >>
    /\ central_directory = records
    /\ EndIdle
    /\ bulk = NoBulk
    /\ plan_offset = 0
    /\ plan_size = 0
    /\ plan_idx = 0
    /\ plan_ranges = << >>
    /\ CallIdle

\* a record of a member of one stored byte
FileRecord(filename, k) ==
    [signature |-> CENTRAL_HEADER_SIGNATURE, filename |-> filename,
     compressed_size |-> 1, uncompressed_size |-> 1, compression_method |-> 0,
     crc32 |-> k, local_header_offset |-> k * MemberSpan,
     extra |-> << >>, comment_len |-> 0]

\* a directory placeholder
DirectoryRecord(filename) ==
    [FileRecord(filename, 0) EXCEPT !.compressed_size = 0, !.uncompressed_size = 0]

\* archives listed and extracted from: one without records, one of a
\* directory only, and one of three files under a directory
ListArchives ==
    { << >>,
      << DirectoryRecord(<< "d", "/" >>) >>,
      << DirectoryRecord(<< "d", "/" >>), FileRecord(<< "x" >>, 0),
         FileRecord(<< "a" >>, 1), FileRecord(<< "a", "b" >>, 2) >> }

\* filter_pattern of list_files: none, or a pattern; "(" is no regular
\* expression and matches no name
Filters == { None, Some("a"), Some("b"), Some("(") }

\* display_file_numbers handed to download_bulk
BulkLists == { << 1 >>, << 2, 1 >> }

ListInit == \E records \in ListArchives : HandleConstructed(records)

ListNext ==
    \/ \E filter_pattern \in Filters, reads_fail \in BOOLEAN :
          ListFiles(filter_pattern, reads_fail)
    \/ \E pattern \in { "a", "(" }, reads_fail \in BOOLEAN : SearchFiles(pattern, reads_fail)
    \/ \E numbers \in BulkLists, v \in BOOLEAN : DownloadBulk(numbers, v)
    \/ BulkDownloadFile
    \/ DownloadBulkReturn
    \/ Next

SpecList == ListInit /\ [][ListNext]_vars

\* records a central directory may hold: names of a file, of a directory and
\* the empty name; sizes and offsets that are plain, zero, beyond the archive
\* or the sentinel; no extra field, a ZIP64 block of three fields, of one
\* field behind another block, or no ZIP64 block; a comment; a wrong signature
RecordNames == { << "a" >>, << "d", "/" >>, << >> }
RecordShapes ==
    { [compressed_size |-> 1, uncompressed_size |-> 2, local_header_offset |-> 0],
      [compressed_size |-> 0, uncompressed_size |-> 0, local_header_offset |-> 0],
      [compressed_size |-> 1, uncompressed_size |-> 2,
       local_header_offset |-> ArchiveLengthOf(<< >>) + MaxRecords * 128] }
SentinelShapes ==
    { [compressed_size |-> SENTINEL32, uncompressed_size |-> SENTINEL32,
       local_header_offset |-> SENTINEL32],
      [compressed_size |-> SENTINEL32, uncompressed_size |-> 2,
       local_header_offset |-> 0],
      [compressed_size |-> 1, uncompressed_size |-> 2,
       local_header_offset |-> SENTINEL32] }
RecordExtras ==
    { << >>, << Zip64Block(<< 5, 6, 7 >>) >>, << OtherBlock, Zip64Block(<< 5 >>) >>,
      << OtherBlock >> }

RecordOf(filename, shape, extra, comment_len) ==
    [signature |-> CENTRAL_HEADER_SIGNATURE, filename |-> filename,
     compressed_size |-> shape.compressed_size,
     uncompressed_size |-> shape.uncompressed_size,
     compression_method |-> 8, crc32 |-> 9,
     local_header_offset |-> shape.local_header_offset,
     extra |-> extra, comment_len |-> comment_len]

PlainShape == [compressed_size |-> 1, uncompressed_size |-> 2, local_header_offset |-> 0]

RecordPool ==
    { RecordOf(<< "a" >>, shape, << >>, 0) : shape \in RecordShapes }
      \cup { RecordOf(filename, PlainShape, << >>, 0) : filename \in RecordNames }
      \cup { RecordOf(<< "d", "/" >>, shape, << >>, 0) : shape \in RecordShapes }
      \cup { RecordOf(<< "a" >>, shape, extra, 0) :
               shape \in SentinelShapes, extra \in RecordExtras }
      \cup { RecordOf(<< "a" >>, PlainShape, << OtherBlock >>, 1),
             [RecordOf(<< "a" >>, PlainShape, << >>, 0) EXCEPT !.signature = 0] }

RECURSIVE SeqsUpTo(_, _)
SeqsUpTo(S, n) ==
    IF n = 0 THEN { << >> }
    ELSE LET shorter == SeqsUpTo(S, n - 1)
         IN shorter \cup { Append(q, x) : q \in shorter, x \in S }

\* records with every subset of the three fields as the sentinel, and a
\* ZIP64 block of three or of two values, alone or behind another block
AllSentinelShapes ==
    [compressed_size : {1, SENTINEL32}, uncompressed_size : {2, SENTINEL32},
     local_header_offset : {0, SENTINEL32}]
Zip64Records ==
    { RecordOf(<< "a" >>, shape, extra, 0) :
        shape \in AllSentinelShapes,
        extra \in { << Zip64Block(<< 5, 6, 7 >>) >>, << Zip64Block(<< 5, 6 >>) >>,
                    << OtherBlock, Zip64Block(<< 5, 6, 7 >>) >> } }

ParseArchives == SeqsUpTo(RecordPool, MaxRecords) \cup { << r >> : r \in Zip64Records }

ParseInit == \E records \in ParseArchives : HandleConstructed(records)

ParseNext ==
    \/ \E filter_pattern \in Filters, reads_fail \in BOOLEAN :
          ListFiles(filter_pattern, reads_fail)
    \/ \E pattern \in { "a", "(" }, reads_fail \in BOOLEAN : SearchFiles(pattern, reads_fail)

SpecParse == ParseInit /\ [][ParseNext]_vars

\* a ZIP64 block that declares one 8-byte value while the extra field ends
\* behind the four bytes of its head
TruncatedZip64Block == [header_id |-> ZIP64_EXTRA_ID, data_size |-> 8, fields |-> << >>]

\* records for the walk over a damaged central directory: a file, a
\* directory, a record without the signature, and records whose ZIP64 block
\* is cut short, one of them with a name that starts with the bytes of a
\* central header
WalkPool ==
    { RecordOf(<< "a" >>, PlainShape, << >>, 0),
      RecordOf(<< "d", "/" >>, PlainShape, << >>, 0),
      [RecordOf(<< "a" >>, PlainShape, << >>, 0) EXCEPT !.signature = 0],
      RecordOf(<< "b" >>, [PlainShape EXCEPT !.compressed_size = SENTINEL32],
               << Zip64Block(<< 5 >>) >>, 0),
      RecordOf(<< "b" >>, [PlainShape EXCEPT !.compressed_size = SENTINEL32],
               << TruncatedZip64Block >>, 0),
      RecordOf(HEADER_IN_NAME \o << "x" >>,
               [PlainShape EXCEPT !.compressed_size = SENTINEL32],
               << TruncatedZip64Block >>, 1) }

WalkArchives == SeqsUpTo(WalkPool, MaxRecords)

WalkInit == \E records \in WalkArchives : HandleConstructed(records)

\* list_files and search_files on a damaged central directory
SpecWalk == WalkInit /\ [][ParseNext]_vars

(***************************************************************************)
(* _find_end_of_central_directory and the ZIP64 locator lookups            *)
(***************************************************************************)
EOCD_LEN == 22
ZIP64_LOCATOR_LEN == 20
ZIP64_EOCD_LEN == 56
ZIP64_EOCD_HEADER_LEN == 12
LOCATOR_SEARCH_SIZE == 8192
SENTINEL16 == 65535
ZIP64_LOCATOR_SIGNATURE == 117853008
ZIP64_EOCD_SIGNATURE == 101075792

\* the two readers of the repository
ENHANCED == "EnhancedRemoteZipReader"
FIXED == "FixedRemoteZipReader"
Readers == { ENHANCED, FIXED }

\* struct.unpack('<I', b): four bytes read as a little-endian number
LittleEndian32(b) == b[1] + 256 * b[2] + 65536 * b[3] + 16777216 * b[4]

\* the bytes 50 4b 06 07 and the bytes 50 4b 07 06
PK67 == << 80, 75, 6, 7 >>
PK76 == << 80, 75, 7, 6 >>

\* zip64_locator_sig, the four bytes the fallback scan looks for
FallbackSignature(reader) == IF reader = ENHANCED THEN PK67 ELSE PK76

\* the test that sends _find_end_of_central_directory to the ZIP64 records
Zip64Needed(reader, eocd) ==
    \/ eocd.cd_offset = SENTINEL32
    \/ eocd.cd_entries_total = SENTINEL16
    \/ reader = FIXED /\ eocd.cd_size = SENTINEL32

\* the end of an archive as the server holds it: its length, the 22-byte end
\* record in its last bytes if there is one, the 20-byte locator if there is
\* one, and the ZIP64 end record the locator points to
EndRecords ==
    [cd_entries_total : {1, SENTINEL16}, cd_size : {CENTRAL_HEADER_LEN, SENTINEL32},
     cd_offset : {0, SENTINEL32}]
Zip64EndRecords ==
    [signature : {ZIP64_EOCD_SIGNATURE, 0}, cd_size : {CENTRAL_HEADER_LEN},
     cd_offset : {LOCAL_HEADER_LEN}]
LongTail == 3 * LOCATOR_SEARCH_SIZE
\* bytes between the locator and the end record: none, a few, more than the
\* fallback scan reads
LocatorGaps == { 0, 4, LOCATOR_SEARCH_SIZE }
Locators ==
    { [offset |-> LongTail - EOCD_LEN - gap - ZIP64_LOCATOR_LEN,
       signature |-> sig,
       zip64_eocd_offset |-> LongTail - EOCD_LEN - gap - ZIP64_LOCATOR_LEN - ZIP64_EOCD_LEN] :
      gap \in LocatorGaps, sig \in { PK67, PK76 } }
Tails ==
    { [size |-> n, eocd |-> None, locator |-> None,
       zip64_eocd |-> z] : n \in {0, LongTail}, z \in Zip64EndRecords }
      \cup { [size |-> EOCD_LEN, eocd |-> Some(e), locator |-> None, zip64_eocd |-> z] :
             e \in EndRecords, z \in Zip64EndRecords }
      \cup { [size |-> LongTail, eocd |-> Some(e), locator |-> l, zip64_eocd |-> z] :
             e \in EndRecords, l \in {None} \cup { Some(x) : x \in Locators },
             z \in Zip64EndRecords }

\* the first four bytes at an offset where a locator is looked for
SignatureAt(tail, offset) ==
    IF tail.locator # None /\ tail.locator[1].offset = offset
    THEN tail.locator[1].signature
    ELSE << 0, 0, 0, 0 >>

\* the backward scan of the fallback over the trailing window: the position
\* of the locator, or None
FallbackScan(reader, tail, size) ==
    LET search_size == Min(LOCATOR_SEARCH_SIZE, size)
        start_pos == size - search_size
    IN IF /\ tail.locator # None
          /\ tail.locator[1].signature = FallbackSignature(reader)
          /\ tail.locator[1].offset >= start_pos
          /\ tail.locator[1].offset - start_pos <= search_size - ZIP64_LOCATOR_LEN
       THEN Some(tail.locator[1].offset)
       ELSE None

\* a reader of either class, constructed on an archive with that end
EndInit ==
    /\ \E tail \in Tails :
          /\ archive_tail = tail
          /\ file_size = tail.size
          /\ head_content_length = NumHeader(tail.size)
          /\ probe_content_range = NumHeader(tail.size)
    /\ \E reader \in Readers : locate = [NotLocating EXCEPT !.reader = reader]
    /\ open_pc = "constructed"
    /\ validate_probe_status = PARTIAL_CONTENT
    /\ initialize_probe_status = PARTIAL_CONTENT
    /\ structure_reads = << >>
    /\ actual_url = Some(ARCHIVE_URL)
    /\ files_info = << >>
    /\ current_display_mapping = << >>
    /\ central_directory = << >>
    /\ bulk = NoBulk
    /\ plan_offset = 0
    /\ plan_size = 0
    /\ plan_idx = 0
    /\ plan_ranges = << >>
    /\ CallIdle

\* a step of the search: the ranges it asked _read_bytes for, and the call
\* as the step leaves it
LocateStep(ranges, after) ==
    /\ structure_reads' = structure_reads \o ranges
    /\ locate' = after
    /\ UNCHANGED << open_pc, validate_probe_status, initialize_probe_status,
                    head_content_length, probe_content_range, handleVars, planVars,
                    callVars, central_directory, bulk, archive_tail >>

Failed(error) == [locate EXCEPT !.pc = "failed", !.error = error]

\* _find_end_of_central_directory up to the test for ZIP64
FindEndRecord(raised) ==
    /\ locate.pc = "idle"
    /\ locate.reader \in Readers
    /\ LET search_size == Min(EOCD_SEARCH_SIZE, file_size)
           start_pos == file_size - search_size
           eocd_offset == file_size - EOCD_LEN
       IN LocateStep(<< RangeOf(start_pos, search_size) >>,
            IF raised THEN Failed("read")
            ELSE IF archive_tail.eocd = None \/ search_size < EOCD_LEN
            THEN Failed("End of Central Directory not found")
            ELSE IF Zip64Needed(locate.reader, archive_tail.eocd[1])
            THEN [locate EXCEPT !.pc = "locator", !.zip64_path = TRUE,
                                !.eocd_offset = eocd_offset]
            ELSE [locate EXCEPT !.pc = "found", !.eocd_offset = eocd_offset,
                                !.cd_offset = archive_tail.eocd[1].cd_offset,
                                !.cd_size = archive_tail.eocd[1].cd_size])

\* _find_zip64_end_of_central_directory: the locator 20 bytes before the end
\* record
LocatorPrimary(raised) ==
    /\ locate.pc = "locator"
    /\ LET zip64_locator_offset == locate.eocd_offset - ZIP64_LOCATOR_LEN
       IN IF zip64_locator_offset < 0
          THEN LocateStep(<< >>, Failed("ZIP64 locator would be at negative offset"))
          ELSE LocateStep(<< RangeOf(zip64_locator_offset, ZIP64_LOCATOR_LEN) >>,
                 IF raised THEN Failed("Failed to read ZIP64 locator")
                 ELSE IF LittleEndian32(SignatureAt(archive_tail, zip64_locator_offset))
                           # ZIP64_LOCATOR_SIGNATURE
                 THEN [locate EXCEPT !.pc = "fallback", !.fallback = TRUE]
                 ELSE [locate EXCEPT !.pc = "zip64_eocd",
                                     !.zip64_locator_pos = zip64_locator_offset,
                                     !.zip64_eocd_offset =
                                         archive_tail.locator[1].zip64_eocd_offset])

\* the fallback: the read of the trailing window and the backward scan
LocatorFallback(raised) ==
    /\ locate.pc = "fallback"
    /\ LET search_size == Min(LOCATOR_SEARCH_SIZE, file_size)
           start_pos == file_size - search_size
           found == FallbackScan(locate.reader, archive_tail, file_size)
       IN LocateStep(<< RangeOf(start_pos, search_size) >>,
            IF raised THEN Failed("read")
            ELSE IF found = None
            THEN Failed("ZIP64 End of Central Directory Locator not found")
            ELSE [locate EXCEPT !.pc = "fallback_locator", !.zip64_locator_pos = found[1]])

\* the fallback: the read of the 20 bytes at the position found
FallbackLocatorRead(raised) ==
    /\ locate.pc = "fallback_locator"
    /\ LocateStep(<< RangeOf(locate.zip64_locator_pos, ZIP64_LOCATOR_LEN) >>,
         IF raised THEN Failed("read")
         ELSE [locate EXCEPT !.pc = "zip64_eocd",
                             !.zip64_eocd_offset = archive_tail.locator[1].zip64_eocd_offset])

\* the read of the ZIP64 end record: 56 bytes unpacked as they are, or its
\* 12-byte head first, with a test of the signature
Zip64EndRecordRead(raised) ==
    /\ locate.pc = "zip64_eocd"
    /\ LET z == archive_tail.zip64_eocd
           found == [locate EXCEPT !.pc = "found", !.cd_offset = z.cd_offset,
                                   !.cd_size = z.cd_size]
       IN IF locate.reader = ENHANCED
          THEN LocateStep(<< RangeOf(locate.zip64_eocd_offset, ZIP64_EOCD_LEN) >>,
                          IF raised THEN Failed("read") ELSE found)
          ELSE IF z.signature # ZIP64_EOCD_SIGNATURE
          THEN LocateStep(<< RangeOf(locate.zip64_eocd_offset, ZIP64_EOCD_HEADER_LEN) >>,
                          IF raised THEN Failed("Failed to read ZIP64 EOCD")
                          ELSE Failed("Invalid ZIP64 EOCD signature"))
          ELSE LocateStep(<< RangeOf(locate.zip64_eocd_offset, ZIP64_EOCD_HEADER_LEN),
                             RangeOf(locate.zip64_eocd_offset, ZIP64_EOCD_LEN) >>,
                          IF raised THEN Failed("Failed to read ZIP64 EOCD") ELSE found)

EndNext ==
    \/ \E raised \in BOOLEAN : FindEndRecord(raised)
    \/ \E raised \in BOOLEAN : LocatorPrimary(raised)
    \/ \E raised \in BOOLEAN : LocatorFallback(raised)
    \/ \E raised \in BOOLEAN : FallbackLocatorRead(raised)
    \/ \E raised \in BOOLEAN : Zip64EndRecordRead(raised)

SpecEnd == EndInit /\ [][EndNext]_vars

(***************************************************************************)
(* Properties                                                              *)
(***************************************************************************)
\* every call of _read_bytes under way or made by the current download_file
Reads == { main_read } \cup { tasks[i].read : i \in DOMAIN tasks }

\* the range fetch_chunk(i) asks for
TaskLo(i) == ChunkStart(frame.data_offset, frame.chunk_size, i)
TaskHi(i) == ChunkEnd(frame.data_offset, frame.expected_size, frame.chunk_size, i)

\* every chunk read that returned, returned exactly the bytes of its range
AllExact ==
    \A i \in DOMAIN tasks :
        tasks[i].read.outcome = "returned" =>
            tasks[i].read.content = Slice(TaskLo(i), TaskHi(i))

(***************************************************************************)
(* C1: the ranges requested by fetch_chunk(0..N-1) are each non-empty,     *)
(* start at P, follow one another without gap or overlap, stay inside      *)
(* [P, P+C), and once all N are requested they end at P+C-1: their union   *)
(* is exactly [P, P+C).                                                    *)
(***************************************************************************)
ChunkCoverage ==
    /\ \A i \in 1..Len(plan_ranges) :
          /\ plan_ranges[i].lo <= plan_ranges[i].hi
          /\ plan_ranges[i].lo >= plan_offset
          /\ plan_ranges[i].hi <= plan_offset + plan_size - 1
          /\ plan_ranges[i].lo = IF i = 1 THEN plan_offset
                                 ELSE plan_ranges[i-1].hi + 1
    /\ plan_idx = PlanTotalChunks =>
          /\ Len(plan_ranges) = PlanTotalChunks
          /\ (plan_size = 0) = (plan_ranges = << >>)
          /\ plan_ranges # << >> =>
                plan_ranges[Len(plan_ranges)].hi = plan_offset + plan_size - 1

\* a plan whose last chunk is shorter than the chunk size was walked to the end
ChunkCoverageWitness ==
    /\ plan_idx = PlanTotalChunks
    /\ Len(plan_ranges) >= 2
    /\ plan_size % PlanChunkSize # 0
    /\ plan_offset > 0

(***************************************************************************)
(* C2: the joined payload is the concatenation of the chunk responses in   *)
(* idx order, whatever the order in which the futures completed and were   *)
(* handed out.                                                             *)
(***************************************************************************)
OrderIndependent ==
    compressed_data # None =>
        compressed_data[1] =
            Join([k \in 1..frame.total_chunks |-> tasks[k - 1].read.content])

\* a payload joined after a future was handed out before one of lower idx,
\* from chunks that differ
OrderIndependentWitness ==
    /\ compressed_data # None
    /\ reordered
    /\ frame.total_chunks >= 2
    /\ tasks[0].read.content # tasks[1].read.content

(***************************************************************************)
(* C3 (as claimed): when every range is answered with exactly the bytes    *)
(* asked for, the joined payload is as long as the catalog's               *)
(* compressed_size of the entry.                                           *)
(***************************************************************************)
PayloadLengthIsCatalogSize ==
    (compressed_data # None /\ AllExact) =>
        ByteLen(compressed_data[1]) = Entry.compressed_size

(***************************************************************************)
(* C3 (amended): when every range is answered with exactly the bytes asked *)
(* for, the joined payload is the bytes [data_offset, data_offset + C) and *)
(* its length is C, the larger of the catalog's compressed_size and the    *)
(* compressed size the local header reports.                               *)
(***************************************************************************)
PayloadLengthIsFinalSize ==
    /\ [](compressed_data # None /\ AllExact =>
            /\ ByteLen(compressed_data[1]) = frame.expected_size
            /\ frame.expected_size >= Entry.compressed_size
            /\ Normalize(compressed_data[1]) =
                 Slice(frame.data_offset, frame.data_offset + frame.expected_size - 1))
    /\ [][(pc = "local_variable" /\ pc' = "pool") =>
            LET catalog_size == Entry.compressed_size
                local_size == LocalCompressedSize(header[1])
            IN frame'.expected_size =
                 IF local_size > catalog_size THEN local_size ELSE catalog_size]_vars

\* a payload joined from exact answers that is longer than the catalog says
PayloadLengthWitness ==
    /\ compressed_data # None
    /\ AllExact
    /\ frame.total_chunks >= 1
    /\ ByteLen(compressed_data[1]) > Entry.compressed_size

(***************************************************************************)
(* C4: a call of _read_bytes makes at most three attempts; an attempt      *)
(* answered 206 or 200 ends the call with the bytes returned, and the call *)
(* raises only after three attempts none of which was so answered; a       *)
(* chunk read that returned holds the body of a 206 or 200 answer; when    *)
(* every chunk read returned, download_file returns True.                  *)
(***************************************************************************)
RetryAbsorbsFailures ==
    /\ \A rd \in Reads :
          /\ rd.attempts <= 3
          /\ rd.answered => rd.outcome = "returned"
          /\ rd.outcome = "raised" => (rd.attempts = 3 /\ ~rd.answered)
    /\ \A i \in DOMAIN tasks :
          tasks[i].read.outcome = "returned" =>
              \E resp \in Responses(TaskLo(i), TaskHi(i) - TaskLo(i) + 1, file_size) :
                  /\ ~resp.raised
                  /\ resp.status \in {206, 200}
                  /\ tasks[i].read.content = resp.body
    /\ (pc = "returned" /\ frame.chunk_size > 0
          /\ \A i \in DOMAIN tasks : tasks[i].read.outcome = "returned")
         => result = Some(TRUE)

\* the read of the second chunk failed twice and then succeeded, and the
\* extraction returned True
RetryAbsorbsFailuresWitness ==
    /\ result = Some(TRUE)
    /\ frame.total_chunks >= 2
    /\ tasks[1].read.attempts = 3
    /\ tasks[1].read.outcome = "returned"
    /\ tasks[0].read.attempts = 1

(***************************************************************************)
(* C5: the k-th wait of a read is 2^(k-1) seconds, so the waits are a      *)
(* prefix of 1s, 2s, 4s, one wait after each failed attempt that is        *)
(* followed by another, and a read makes at most three attempts.           *)
(***************************************************************************)
BackoffSequence ==
    \A rd \in Reads :
        /\ rd.attempts <= 3
        /\ Len(rd.waits) <= Len(<< 1, 2, 4 >>)
        /\ rd.waits = SubSeq(<< 1, 2, 4 >>, 1, Len(rd.waits))
        /\ Len(rd.waits) = CASE rd.outcome = "retry" -> rd.attempts
                             [] rd.outcome = "returned" -> rd.attempts - 1
                             [] rd.outcome = "raised" -> rd.attempts - 1

\* a chunk read that slept 1s and then 2s before its third attempt
BackoffSequenceWitness ==
    \E i \in DOMAIN tasks :
        /\ tasks[i].read.attempts = 3
        /\ tasks[i].read.waits = << 1, 2 >>

(***************************************************************************)
(* C6: when the read of a chunk failed on all three attempts,              *)
(* download_file returns False, has written no artifact, and returns only  *)
(* once every submitted task has finished.                                 *)
(***************************************************************************)
ExhaustedReadFailsExtraction ==
    (pc = "returned" /\ \E i \in DOMAIN tasks : tasks[i].read.outcome = "raised") =>
        /\ result = Some(FALSE)
        /\ artifact = None
        /\ compressed_data = None
        /\ \A i \in DOMAIN tasks :
              /\ tasks[i].st \in {"done", "failed", "collected"}
              /\ tasks[i].read.outcome \in {"returned", "raised"}
        /\ downloaded_bytes_lock = None

\* the first chunk read was exhausted and its sibling, started later, ran to
\* its end before download_file returned
ExhaustedReadWitness ==
    /\ pc = "returned"
    /\ frame.total_chunks >= 2
    /\ tasks[0].read.outcome = "raised"
    /\ tasks[0].read.attempts = 3
    /\ tasks[1].st = "done"

(***************************************************************************)
(* C7: when a bytes=0-0 probe is answered 501 the handle is not            *)
(* constructed: no catalog exists and no read in search of the end of      *)
(* central directory is issued.                                            *)
(***************************************************************************)
ProbeRejection ==
    (validate_probe_status = 501 \/ initialize_probe_status = 501) =>
        /\ open_pc = "failed"
        /\ structure_reads = << >>
        /\ DOMAIN files_info = {}

\* the first probe was answered 501
ProbeRejectionWitness ==
    /\ validate_probe_status = 501
    /\ open_pc = "failed"

(***************************************************************************)
(* C8 (as claimed): a handle is constructed only when the bytes=0-0 probes *)
(* were answered 206 or 200.                                               *)
(***************************************************************************)
ConstructedOnlyOnRangeSuccess ==
    open_pc = "constructed" =>
        /\ validate_probe_status \in {206, 200}
        /\ initialize_probe_status \in {206, 200}

(***************************************************************************)
(* C8 (amended): a handle is constructed only when no probe was answered   *)
(* 501 and a total length was obtained, from a numeric Content-Length of   *)
(* the HEAD or, when the HEAD has none, from a numeric Content-Range total *)
(* of a probe answered 206; other probe statuses do not stop construction. *)
(***************************************************************************)
ConstructedOnlyWithLength ==
    open_pc = "constructed" =>
        /\ validate_probe_status # 501
        /\ initialize_probe_status # 501
        /\ \/ /\ head_content_length.present
              /\ head_content_length.parses
              /\ file_size = head_content_length.value
           \/ /\ ~head_content_length.present
              /\ initialize_probe_status = 206
              /\ probe_content_range.present
              /\ probe_content_range.parses
              /\ file_size = probe_content_range.value

\* a handle constructed although both probes were answered 403
ConstructedDespiteStatusWitness ==
    /\ open_pc = "constructed"
    /\ validate_probe_status = 403
    /\ initialize_probe_status = 403

(***************************************************************************)
(* C9: a chunk read that returned, returned as many bytes as the span it   *)
(* asked for.                                                              *)
(***************************************************************************)
ReadReturnsRequestedSpan ==
    \A i \in DOMAIN tasks :
        tasks[i].read.outcome = "returned" =>
            ByteLen(tasks[i].read.content) = TaskHi(i) - TaskLo(i) + 1

(***************************************************************************)
(* C10: when the method is none of 0, 8, 12, 14 or the codec raised, the   *)
(* artifact is the joined compressed payload, no CRC-32 check is made      *)
(* even if verify_integrity was asked for, and download_file returns True. *)
(***************************************************************************)
CodecFallback ==
    (compressed_data # None
       /\ (Entry.compression_method \notin {0, 8, 12, 14} \/ codec_raised)) =>
        /\ artifact = Some([decoded |-> FALSE, of |-> compressed_data[1]])
        /\ crc_result = "skipped"
        /\ result = Some(TRUE)

\* a member of unsupported method extracted with verify_integrity asked for
CodecFallbackWitness ==
    /\ result = Some(TRUE)
    /\ frame.verify_integrity
    /\ Entry.compression_method = 99
    /\ artifact # None

(***************************************************************************)
(* C11: once the payload is joined, _verify_crc32 is called exactly when   *)
(* verify_integrity was asked for and the data was decompressed (method 0  *)
(* counting as decompressed); it is called once, on the bytes that are     *)
(* written; and whatever its verdict the artifact is written and           *)
(* download_file returns True.                                             *)
(***************************************************************************)
CrcOverArtifact ==
    compressed_data # None =>
        /\ artifact # None
        /\ result = Some(TRUE)
        /\ (crc_result # "skipped") <=>
              (frame.verify_integrity
                 /\ (Entry.compression_method = 0 \/ artifact[1].decoded))
        /\ crc_result # "skipped" => crc_data = artifact
        /\ crc_result = "skipped" => crc_data = None

\* a decompressed member of several chunks whose CRC-32 did not match
CrcOverArtifactWitness ==
    /\ crc_result = "failed"
    /\ frame.total_chunks >= 2
    /\ artifact # None
    /\ artifact[1].decoded
    /\ result = Some(TRUE)

(***************************************************************************)
(* C18: when the 30 bytes read at the local-header offset do not start     *)
(* with 0x04034b50, download_file returns False and no further read is     *)
(* issued; otherwise the payload starts at offset + 30 + filename_len +    *)
(* extra_len, whatever the extra field holds.                              *)
(***************************************************************************)
LocalHeaderProbe ==
    /\ [](header # None /\ header[1].signature # LOCAL_HEADER_SIGNATURE =>
            /\ pc = "returned"
            /\ result = Some(FALSE)
            /\ main_read.outcome = "returned"
            /\ tasks = << >>
            /\ compressed_data = None
            /\ artifact = None)
    /\ [][pc = "local_variable" /\ pc' = "pool" =>
            /\ header[1].signature = LOCAL_HEADER_SIGNATURE
            /\ frame'.data_offset =
                  files_info[frame.file_index].local_header_offset + 30
                    + header[1].filename_len + ExtraLen(header[1].extra)]_vars

\* the header read returned bytes that do not start with the signature
LocalHeaderProbeWitness ==
    /\ header # None
    /\ header[1].signature # LOCAL_HEADER_SIGNATURE
    /\ main_read.attempts = 2
    /\ frame.file_index = 1

(***************************************************************************)
(* C20: the compressed length an extraction uses is the larger of the      *)
(* catalog compressed size and the local-header compressed size, and the   *)
(* chunk size, the worker count, the chunk count and the tasks submitted   *)
(* are those of that length.                                               *)
(***************************************************************************)
GeometryFromFinalSize ==
    [][pc = "local_variable" /\ pc' = "pool" =>
          LET catalog_size == files_info[frame.file_index].compressed_size
              local_size == LocalCompressedSize(header[1])
              C == frame'.expected_size
              N == frame'.total_chunks
          IN /\ C \in {catalog_size, local_size}
             /\ C >= catalog_size
             /\ C >= local_size
             /\ frame'.chunk_size = ChunkSize(C)
             /\ frame'.max_workers = Workers(C, frame.max_workers)
             /\ N * frame'.chunk_size >= C
             /\ (N - 1) * frame'.chunk_size < C
             /\ DOMAIN tasks' = 0..(N - 1)
             /\ DOMAIN downloaded_chunks' = 0..(N - 1)]_vars

\* a member the catalog gives no payload and the local header one byte: one
\* chunk is planned
GeometryFromFinalSizeWitness ==
    /\ pc = "pool"
    /\ files_info[frame.file_index].compressed_size = 0
    /\ frame.expected_size > 0
    /\ frame.total_chunks = 1

\* how often the central directory was read through the handle
CentralDirectoryFetches ==
    Cardinality({ i \in DOMAIN structure_reads :
                    i % 2 = 0
                      /\ structure_reads[i - 1] = StructureReads(file_size, central_directory)[1]
                      /\ structure_reads[i] = StructureReads(file_size, central_directory)[2] })

\* the number of entries the current view shows
ViewSize == Cardinality(DOMAIN current_display_mapping)

(***************************************************************************)
(* C12: a call of download_file with a display number outside              *)
(* 1..number of entries displayed has returned False and has issued no     *)
(* read.                                                                   *)
(***************************************************************************)
OutOfViewRejected ==
    (pc # "idle" /\ ~bulk.active /\ frame.display_file_number \notin 1..ViewSize) =>
        /\ pc = "returned"
        /\ result = Some(FALSE)
        /\ main_read = NewRead
        /\ tasks = << >>
        /\ artifact = None

(***************************************************************************)
(* C13: while download_bulk extracts for the display number d of its       *)
(* list, a number inside the view, the member download_file works on is    *)
(* the catalog entry the view maps d - 1 to.                               *)
(***************************************************************************)
BulkExtractsMapped ==
    (bulk.active /\ pc # "idle"
       /\ bulk.display_file_numbers[bulk.done + 1] \in 1..ViewSize) =>
        /\ frame.display_file_number >= 1
        /\ frame.file_index =
              current_display_mapping[bulk.display_file_numbers[bulk.done + 1] - 1]

(***************************************************************************)
(* C14: through one handle the central directory is read at most once.     *)
(***************************************************************************)
CatalogParsedOnce == CentralDirectoryFetches <= 1

(***************************************************************************)
(* C15: no step of download_file, whether the call succeeds or fails,      *)
(* changes the URL, the archive length, the catalog or the view mapping,   *)
(* and once the call has returned nothing of it is left.                   *)
(***************************************************************************)
HandleUntouched ==
    /\ [][(pc # "idle" \/ pc' # "idle") =>
            /\ actual_url' = actual_url
            /\ file_size' = file_size
            /\ files_info' = files_info
            /\ current_display_mapping' = current_display_mapping]_vars
    /\ [](pc = "idle" => CallIdle)

\* an extraction under a filtered view failed on the signature of the local
\* header
HandleUntouchedWitness ==
    /\ pc = "returned"
    /\ result = Some(FALSE)
    /\ header # None
    /\ ViewSize < Cardinality(DOMAIN files_info)

\* the records the walk reaches: those before the first wrong signature
Reached ==
    { k \in DOMAIN central_directory :
        \A j \in 1..k : central_directory[j].signature = CENTRAL_HEADER_SIGNATURE }

\* the reached records that are neither a directory nor without any size,
\* the sizes taken after the ZIP64 extra was applied
ReachedFiles ==
    { k \in Reached :
        LET record == central_directory[k]
            real == RealValues(record, TRUE)
        IN /\ (record.filename = << >> \/ record.filename[Len(record.filename)] # "/")
           /\ (real.compressed_size > 0 \/ real.uncompressed_size > 0) }

\* the record behind the catalog key: the (key + 1)-th reached file
RecordOfKey(key) ==
    CHOOSE k \in ReachedFiles : Cardinality({ j \in ReachedFiles : j < k }) = key

(***************************************************************************)
(* C16: once the central directory was walked, the catalog keys are        *)
(* 0..n-1, no entry has a name that ends with '/' or both sizes zero, and  *)
(* the entries are, in the order of the records, those of every record     *)
(* the walk reached that is neither.                                       *)
(***************************************************************************)
CatalogShape ==
    CentralDirectoryFetches >= 1 =>
        LET n == Cardinality(DOMAIN files_info)
        IN /\ DOMAIN files_info = 0..(n - 1)
           /\ n = Cardinality(ReachedFiles)
           /\ \A key \in DOMAIN files_info :
                 LET entry == files_info[key]
                     record == central_directory[RecordOfKey(key)]
                 IN /\ entry.filename # << >>
                    /\ entry.filename[Len(entry.filename)] # "/"
                    /\ (entry.compressed_size > 0 \/ entry.uncompressed_size > 0)
                    /\ record.filename # << >> => entry.filename = record.filename
                    /\ entry.crc32 = record.crc32
                    /\ entry.compression_method = record.compression_method

\* a directory placeholder was skipped and the file behind it got the key 0
CatalogShapeWitness ==
    /\ CentralDirectoryFetches >= 1
    /\ Len(central_directory) = 2
    /\ central_directory[1].filename = << "d", "/" >>
    /\ DOMAIN files_info = {0}
    /\ files_info[0].filename = << "a" >>

(***************************************************************************)
(* C17: every catalog entry has a local-header offset inside               *)
(* [0, archive length).                                                    *)
(***************************************************************************)
OffsetsInsideArchive ==
    \A key \in DOMAIN files_info :
        /\ files_info[key].local_header_offset >= 0
        /\ files_info[key].local_header_offset < file_size

(***************************************************************************)
(* C19: no catalog entry holds the sentinel 0xFFFFFFFF as its compressed   *)
(* size, its uncompressed size or its local-header offset.                 *)
(***************************************************************************)
NoSentinelCataloged ==
    \A key \in DOMAIN files_info :
        /\ files_info[key].compressed_size # SENTINEL32
        /\ files_info[key].uncompressed_size # SENTINEL32
        /\ files_info[key].local_header_offset # SENTINEL32

\* the tasks whose "downloaded_bytes += len(chunk_data)" is complete
Stored == { i \in DOMAIN tasks : tasks[i].st \in {"done", "collected"} }

\* the sum of the lengths of the chunks fetched by the tasks of S
RECURSIVE FetchedLen(_)
FetchedLen(S) ==
    IF S = {} THEN 0
    ELSE LET i == CHOOSE j \in S : TRUE
         IN ByteLen(tasks[i].read.content) + FetchedLen(S \ {i})

(***************************************************************************)
(* C26: downloaded_bytes changes only in a step of the task that holds     *)
(* downloaded_bytes_lock, and a task is between its load and its store     *)
(* only while it holds the lock; so under every interleaving the tally is  *)
(* the sum of the lengths of the chunks of the tasks that have added       *)
(* theirs: once all tasks are complete it is the sum over all fetched      *)
(* chunks, which is C when every range was answered exactly, and before    *)
(* that it is at most C.                                                   *)
(***************************************************************************)
TallyUnderLock ==
    /\ [](/\ \A i \in DOMAIN tasks :
                (tasks[i].st = "loaded") = (downloaded_bytes_lock = Some(i))
          /\ downloaded_bytes = FetchedLen(Stored)
          /\ AllExact => downloaded_bytes <= frame.expected_size
          /\ (AllExact /\ Stored = DOMAIN tasks /\ frame.chunk_size > 0) =>
                downloaded_bytes = frame.expected_size)
    /\ [][(downloaded_bytes' # downloaded_bytes /\ pc # "returned") =>
            /\ downloaded_bytes_lock # None
            /\ tasks[downloaded_bytes_lock[1]].st = "loaded"
            /\ tasks'[downloaded_bytes_lock[1]].st = "done"
            /\ downloaded_bytes_lock' = None]_vars

\* a task holds the lock between its load and its store while another task,
\* its chunk fetched, waits for the lock
TallyUnderLockWitness ==
    \E i, j \in DOMAIN tasks :
        /\ tasks[i].st = "loaded"
        /\ tasks[j].st = "fetched"
        /\ downloaded_bytes_lock = Some(i)
        /\ ByteLen(tasks[j].read.content) > 0

(***************************************************************************)
(* C27: a slot of downloaded_chunks, once written, holds the bytes fetched *)
(* for the chunk of its index and is not written again during the call;    *)
(* when every future has been handed out without error no slot is None,    *)
(* the payload is joined only then, and a call in which a task failed      *)
(* returns False without a joined payload.                                 *)
(***************************************************************************)
SlotsFilledOnce ==
    /\ [](/\ \A i \in DOMAIN downloaded_chunks :
                downloaded_chunks[i] # None =>
                    /\ tasks[i].st = "collected"
                    /\ downloaded_chunks[i] = Some(tasks[i].read.content)
          /\ (\A i \in DOMAIN tasks : tasks[i].st = "collected") =>
                \A i \in DOMAIN downloaded_chunks : downloaded_chunks[i] # None
          /\ compressed_data # None =>
                /\ \A i \in DOMAIN tasks : tasks[i].st = "collected"
                /\ \A i \in DOMAIN downloaded_chunks : downloaded_chunks[i] # None
          /\ (pc = "returned" /\ \E i \in DOMAIN tasks : tasks[i].st = "failed") =>
                /\ result = Some(FALSE)
                /\ compressed_data = None)
    /\ [][pc # "returned" =>
            \A i \in DOMAIN downloaded_chunks :
                downloaded_chunks[i] # None =>
                    /\ i \in DOMAIN downloaded_chunks'
                    /\ downloaded_chunks'[i] = downloaded_chunks[i]]_vars

\* a call returned True with two slots filled, and the slots differ
SlotsFilledOnceWitness ==
    /\ pc = "returned"
    /\ result = Some(TRUE)
    /\ Cardinality(DOMAIN downloaded_chunks) >= 2
    /\ \A i \in DOMAIN downloaded_chunks : downloaded_chunks[i] # None
    /\ downloaded_chunks[0] # downloaded_chunks[1]

(***************************************************************************)
(* C30: when every HTTP attempt returns or times out, a call of            *)
(* download_file that has started eventually returns True or False; no     *)
(* call of _read_bytes makes more than three attempts, and when the call   *)
(* returns every submitted task has finished and the mutex is free.        *)
(***************************************************************************)
CallTerminates ==
    /\ [](\A rd \in Reads : rd.attempts <= MAX_RETRIES)
    /\ [](Cardinality(DOMAIN tasks) = frame.total_chunks)
    /\ [](pc = "returned" =>
            /\ result \in {Some(TRUE), Some(FALSE)}
            /\ Finished = DOMAIN tasks
            /\ downloaded_bytes_lock = None)
    /\ (pc # "idle") ~> (pc = "returned")

\* a call returned False after a chunk read used up its three attempts while
\* the other chunk task ran to its end
CallTerminatesWitness ==
    /\ pc = "returned"
    /\ result = Some(FALSE)
    /\ \E i, j \in DOMAIN tasks :
          /\ tasks[i].st = "failed"
          /\ tasks[i].read.attempts = MAX_RETRIES
          /\ tasks[j].st = "done"

(***************************************************************************)
(* C21 as stated: whatever max_workers the caller passed, the geometry     *)
(* download_file computes is the table on C: above 1 GiB 16 MiB chunks and *)
(* 2 workers, above 100 MiB up to 1 GiB 8 MiB chunks and 3 workers, up to  *)
(* 100 MiB 4 MiB chunks and 4 workers.                                     *)
(***************************************************************************)
GeometryOfSizeAlone ==
    frame.chunk_size > 0 =>
        LET C == frame.expected_size
        IN /\ C > GiB =>
                frame.chunk_size = 16 * MiB /\ frame.max_workers = 2
           /\ (C > 100 * MiB /\ C <= GiB) =>
                frame.chunk_size = 8 * MiB /\ frame.max_workers = 3
           /\ C <= 100 * MiB =>
                frame.chunk_size = 4 * MiB /\ frame.max_workers = 4

(***************************************************************************)
(* C21 amended: the chunk size and the chunk count are functions of C      *)
(* alone, with C = 1 GiB and C = 100 MiB in the lower tier; the worker     *)
(* count is 2 above 1 GiB and 3 above 100 MiB whatever the argument, and   *)
(* up to 100 MiB it is the max_workers argument of the call.               *)
(***************************************************************************)
GeometryKeepsWorkersArgument ==
    [][(frame.chunk_size = 0 /\ frame'.chunk_size > 0) =>
         LET C == frame'.expected_size
         IN /\ C > GiB =>
                 frame'.chunk_size = 16 * MiB /\ frame'.max_workers = 2
            /\ (C > 100 * MiB /\ C <= GiB) =>
                 frame'.chunk_size = 8 * MiB /\ frame'.max_workers = 3
            /\ C <= 100 * MiB =>
                 frame'.chunk_size = 4 * MiB /\ frame'.max_workers = frame.max_workers
            /\ frame'.total_chunks * frame'.chunk_size >= C
            /\ (frame'.total_chunks - 1) * frame'.chunk_size < C \/ C = 0]_vars

\* the geometry of a payload of exactly 100 MiB, computed for a call that
\* passed max_workers = 1
GeometryKeepsWorkersArgumentWitness ==
    /\ frame.chunk_size = 4 * MiB
    /\ frame.expected_size = 100 * MiB
    /\ frame.max_workers = 1

(***************************************************************************)
(* C29: the path download_file builds for a member of the catalog has no   *)
(* component "..", and no prefix of it leads above output_dir.             *)
(***************************************************************************)
OutputInsideOutputDir ==
    \A k \in DOMAIN frame.output_path :
        /\ frame.output_path[k] # << ".", "." >>
        /\ Depth(frame.output_path, k) >= 0

\* the 22-byte end record the search found
EndRecordFound == archive_tail.eocd[1]

(***************************************************************************)
(* C22: once _find_end_of_central_directory has unpacked the end record,   *)
(* it goes on to the ZIP64 locator and the ZIP64 end record exactly when   *)
(* cd_offset = 0xFFFFFFFF, cd_size = 0xFFFFFFFF or cd_entries_total =      *)
(* 0xFFFF; an end record whose only sentinel is cd_size takes it.          *)
(***************************************************************************)
Zip64PathOnAnySentinel ==
    (locate.pc \notin {"idle", "failed"} \/ locate.zip64_path) =>
        (locate.zip64_path =
            (\/ EndRecordFound.cd_offset = SENTINEL32
             \/ EndRecordFound.cd_size = SENTINEL32
             \/ EndRecordFound.cd_entries_total = SENTINEL16))

\* the locator of the archive lies whole in the trailing min(8192, length)
\* bytes and the check at eocd_offset - 20 would accept its first four bytes
AcceptableLocatorInWindow ==
    /\ archive_tail.locator # None
    /\ archive_tail.locator[1].offset >= file_size - Min(8192, file_size)
    /\ archive_tail.locator[1].offset + 20 <= file_size
    /\ LittleEndian32(archive_tail.locator[1].signature) = ZIP64_LOCATOR_SIGNATURE

(***************************************************************************)
(* C23: once the fallback scan of a reader has read its window, the bytes  *)
(* it looked for are the bytes of the signature 0x07064b50 the check at    *)
(* eocd_offset - 20 tests; a locator in the window that this check would   *)
(* accept has been found by the scan; and when the scan found none, the    *)
(* search has failed with the error that no locator was found.             *)
(***************************************************************************)
LocatorLookupsAgree ==
    (locate.fallback /\ locate.pc # "fallback" /\ locate.error # "read") =>
        /\ FallbackSignature(locate.reader) = << 80, 75, 6, 7 >>
        /\ AcceptableLocatorInWindow =>
              /\ locate.error # "ZIP64 End of Central Directory Locator not found"
              /\ locate.zip64_locator_pos = archive_tail.locator[1].offset
        /\ FallbackScan(locate.reader, archive_tail, file_size) = None =>
              /\ locate.pc = "failed"
              /\ locate.error = "ZIP64 End of Central Directory Locator not found"

\* 1 when the 32-bit value is the sentinel
IsSentinel(value) == IF value = SENTINEL32 THEN 1 ELSE 0

(***************************************************************************)
(* C24: for a cataloged record whose ZIP64 block is long enough for its    *)
(* sentinel fields, whichever of uncompressed size, compressed size and    *)
(* local-header offset they are, the k-th sentinel field in that order has *)
(* the k-th 8-byte value of the block, and a field that is no sentinel     *)
(* keeps its 32-bit value and takes no value of the block; blocks with     *)
(* other IDs in front of the ZIP64 block are stepped over, and without a   *)
(* ZIP64 block the 32-bit values stay.                                     *)
(***************************************************************************)
Zip64FieldsInOrder ==
    CentralDirectoryFetches >= 1 =>
        \A key \in DOMAIN files_info :
            LET entry == files_info[key]
                record == central_directory[RecordOfKey(key)]
                z == FirstZip64From(record.extra, 1)
                su == IsSentinel(record.uncompressed_size)
                sc == IsSentinel(record.compressed_size)
                so == IsSentinel(record.local_header_offset)
            IN /\ (z > 0 /\ record.extra[z].data_size >= 8 * (su + sc + so)) =>
                    LET fields == record.extra[z].fields
                    IN /\ entry.uncompressed_size =
                            IF su = 1 THEN fields[1] ELSE record.uncompressed_size
                       /\ entry.compressed_size =
                            IF sc = 1 THEN fields[su + 1] ELSE record.compressed_size
                       /\ entry.local_header_offset =
                            IF so = 1 THEN fields[su + sc + 1]
                            ELSE record.local_header_offset
               /\ z = 0 =>
                    /\ entry.uncompressed_size = record.uncompressed_size
                    /\ entry.compressed_size = record.compressed_size
                    /\ entry.local_header_offset = record.local_header_offset

\* a cataloged record whose compressed size and local-header offset were
\* sentinels and whose uncompressed size was not: the first value of the
\* block, behind a block with another ID, went to the compressed size
Zip64FieldsInOrderWitness ==
    /\ CentralDirectoryFetches >= 1
    /\ Len(central_directory) = 1
    /\ central_directory[1].extra = << OtherBlock, Zip64Block(<< 5, 6, 7 >>) >>
    /\ central_directory[1].uncompressed_size = 2
    /\ DOMAIN files_info = {0}
    /\ files_info[0].compressed_size = 5
    /\ files_info[0].local_header_offset = 6
    /\ files_info[0].uncompressed_size = 2

\* the records before the first one without the signature or with a ZIP64
\* block that cannot be parsed
WellFormedPrefix ==
    LET bad == { k \in DOMAIN central_directory :
                   \/ central_directory[k].signature # CENTRAL_HEADER_SIGNATURE
                   \/ RealValues(central_directory[k], TRUE).raised }
    IN SubSeq(central_directory, 1,
              IF bad = {} THEN Len(central_directory)
              ELSE (CHOOSE k \in bad : \A j \in bad : k <= j) - 1)

(***************************************************************************)
(* C25: once the central directory was walked, the catalog holds exactly   *)
(* the eligible entries of the records before the first record with a      *)
(* wrong signature or a parse failure: the walk ends there, and no byte    *)
(* behind that point gives a catalog entry.                                *)
(***************************************************************************)
CatalogOfWellFormedPrefix ==
    CentralDirectoryFetches >= 1 =>
        files_info = ParseCentralDirectory(WellFormedPrefix)

(***************************************************************************)
(* C28: every range asked of _read_bytes has start <= end: the reads in    *)
(* search of the end record and of the central directory, and the read of  *)
(* the variable part of a local header, all have a length above 0.         *)
(***************************************************************************)
EveryRangeNonEmpty ==
    /\ \A k \in DOMAIN structure_reads : structure_reads[k].lo <= structure_reads[k].hi
    /\ (pc = "local_variable" /\ main_read.attempts > 0) =>
          header[1].filename_len + ExtraLen(header[1].extra) > 0

====
